---------------------------- MODULE Spec2Model ----------------------------
(***************************************************************************)
(* A model of the polymath cross-venue arbitrage scanner: the market       *)
(* matcher (src/src/matching/matcher.py), the arbitrage detector           *)
(* (src/src/arbitrage/detector.py), the trade executor                     *)
(* (src/src/arbitrage/executor.py) and the scanner loop                    *)
(* (src/src/scanner.py).                                                   *)
(*                                                                         *)
(* Numbers.  A Python float is modelled by the decimal number it stands    *)
(* for, as a fixed-point integer:                                          *)
(*   prices and fee rates in mills (1/1000), so 0.45 is 450, 0.07 is 70;   *)
(*   cost, profit before rounding in micro-dollars (1e-6);                 *)
(*   cost, profit after round(x, 4) in units of 1e-4;                      *)
(*   similarity scores in hundredths of a percent (80% is 8000).           *)
(* Sums, products and comparisons are those of the decimals.  round(x, 4)  *)
(* is the exception: when the decimal is a tie (its fifth decimal is a 5   *)
(* and nothing follows) the double nearest to it lies on one side of the   *)
(* tie or the other, and round() follows the double, so a tie rounds up or *)
(* down (RoundTie).  1.0 - cost is exact in doubles when cost >= 0.5, so   *)
(* there cost and profit lie on opposite sides of their ties.              *)
(***************************************************************************)
EXTENDS Integers, Sequences, FiniteSets, TLC

(***************************************************************************)
(* Generic helpers                                                         *)
(***************************************************************************)
Max(a, b) == IF a >= b THEN a ELSE b

Min(a, b) == IF a <= b THEN a ELSE b

Range(s) == {s[i] : i \in DOMAIN s}

RECURSIVE SeqFilter(_, _)
SeqFilter(s, keep) ==
    IF s = <<>> THEN <<>>
    ELSE IF Head(s) \in keep THEN <<Head(s)>> \o SeqFilter(Tail(s), keep)
    ELSE SeqFilter(Tail(s), keep)

(***************************************************************************)
(* Titles.  A title is a sequence of characters: 0 is a space, 1..9 are    *)
(* lower-case letters, 11..19 the same letters in upper case, 20 is a      *)
(* punctuation mark.                                                       *)
(***************************************************************************)
SPACE == 0

PUNCT == 20

IsUpper(c) == c >= 11 /\ c <= 19

\* str.lower()
Lower(t) == [i \in DOMAIN t |-> IF IsUpper(t[i]) THEN t[i] - 10 ELSE t[i]]

\* re.sub(r"[^\w\s]", " ", text)
PunctToSpace(t) == [i \in DOMAIN t |-> IF t[i] = PUNCT THEN SPACE ELSE t[i]]

\* re.sub(r"\s+", " ", text): every run of spaces becomes one space
RECURSIVE Collapse(_)
Collapse(t) ==
    IF Len(t) <= 1 THEN t
    ELSE IF t[1] = SPACE /\ t[2] = SPACE THEN Collapse(Tail(t))
    ELSE <<t[1]>> \o Collapse(Tail(t))

\* str.strip()
RECURSIVE Strip(_)
Strip(t) ==
    IF t = <<>> THEN t
    ELSE IF Head(t) = SPACE THEN Strip(Tail(t))
    ELSE IF t[Len(t)] = SPACE THEN Strip(SubSeq(t, 1, Len(t) - 1))
    ELSE t

\* _normalize(text)
Normalize(t) == Strip(Collapse(PunctToSpace(Strip(Lower(t)))))

\* str.split(): the maximal runs of non-space characters
RECURSIVE SplitTokens(_, _)
SplitTokens(t, cur) ==
    IF t = <<>> THEN (IF cur = <<>> THEN <<>> ELSE <<cur>>)
    ELSE IF Head(t) = SPACE
         THEN (IF cur = <<>> THEN <<>> ELSE <<cur>>) \o SplitTokens(Tail(t), <<>>)
         ELSE SplitTokens(Tail(t), Append(cur, Head(t)))

\* lexicographic order of two tokens, a < b
RECURSIVE TokenLess(_, _)
TokenLess(a, b) ==
    IF b = <<>> THEN FALSE
    ELSE IF a = <<>> THEN TRUE
    ELSE IF Head(a) # Head(b) THEN Head(a) < Head(b)
    ELSE TokenLess(Tail(a), Tail(b))

RECURSIVE InsertToken(_, _)
InsertToken(sorted, tok) ==
    IF sorted = <<>> THEN <<tok>>
    ELSE IF TokenLess(tok, Head(sorted)) THEN <<tok>> \o sorted
    ELSE <<Head(sorted)>> \o InsertToken(Tail(sorted), tok)

RECURSIVE SortTokens(_)
SortTokens(toks) ==
    IF toks = <<>> THEN <<>>
    ELSE InsertToken(SortTokens(Tail(toks)), Head(toks))

\* " ".join(tokens)
RECURSIVE JoinTokens(_)
JoinTokens(toks) ==
    IF toks = <<>> THEN <<>>
    ELSE IF Len(toks) = 1 THEN Head(toks)
    ELSE Head(toks) \o <<SPACE>> \o JoinTokens(Tail(toks))

\* length of the longest common subsequence of two strings
RECURSIVE LCS(_, _)
LCS(a, b) ==
    IF a = <<>> \/ b = <<>> THEN 0
    ELSE IF Head(a) = Head(b) THEN 1 + LCS(Tail(a), Tail(b))
    ELSE Max(LCS(Tail(a), b), LCS(a, Tail(b)))

\* rapidfuzz fuzz.ratio: the normalized Indel similarity, 100 * 2*LCS / (|a| + |b|),
\* here in hundredths of a percent
Ratio(a, b) ==
    IF Len(a) + Len(b) = 0 THEN 10000
    ELSE (20000 * LCS(a, b)) \div (Len(a) + Len(b))

\* rapidfuzz fuzz.token_sort_ratio: split, sort the tokens, join, ratio
TokenSortRatio(a, b) ==
    Ratio(JoinTokens(SortTokens(SplitTokens(a, <<>>))),
          JoinTokens(SortTokens(SplitTokens(b, <<>>))))

\* The titles the venues may report
TitleABC == <<1, 0, 2, 0, 3>>

TitleBAC == <<12, 0, 1, 20, 0, 3>>

TitleABD == <<1, 0, 2, 0, 4>>

TitleAB == <<0, 1, 0, 0, 2, 20>>

TitleABCD == <<1, 0, 2, 0, 3, 0, 4>>

Titles == {TitleABC, TitleBAC, TitleABD, TitleAB, TitleABCD}

\* the scorer applied to two raw titles as match() applies it (memoized table)
ScoreTable == [a \in Titles, b \in Titles |-> TokenSortRatio(Normalize(a), Normalize(b))]


(***************************************************************************)
(* Markets and matched pairs.  A Market object is [id, title, gen]: gen is *)
(* the fetch (the tick, or the match() call) that built the object, so two *)
(* records with the same id and different gen are different Market objects *)
(* holding different price data.  A MatchedMarket is [k, p, score].        *)
(***************************************************************************)
KIds == {"K1", "K2"}

PIds == {"P1", "P2"}

\* what each venue may list under each id
KListings ==
    { [id |-> "K1", title |-> TitleABC],
      [id |-> "K2", title |-> TitleABD],
      [id |-> "K2", title |-> TitleAB] }

PListings ==
    { [id |-> "P1", title |-> TitleBAC],
      [id |-> "P2", title |-> TitleABCD],
      [id |-> "P2", title |-> TitleABD] }

Market(listing, gen) == [id |-> listing.id, title |-> listing.title, gen |-> gen]

\* the lists of at most two listings with distinct ids, in either order
ListsOf(listings) ==
    {<<>>} \cup {<<a>> : a \in listings}
           \cup {l \in {<<a, b>> : a \in listings, b \in listings} : l[1].id # l[2].id}

Ids(markets) == {markets[i].id : i \in DOMAIN markets}

\* MarketMatcher._build_match
BuildMatch(km, pm, score) == [k |-> km, p |-> pm, score |-> score]

\* poly_by_id = {pm.id: pm for pm in polymarket_markets}: the last market of each id
PolyById(P, id) ==
    P[CHOOSE i \in DOMAIN P : P[i].id = id /\ \A j \in DOMAIN P : P[j].id = id => j <= i]

\* the override loop of match(): st is [matches, cache, ok, op], the override
\* matches so far, the cache, and the overridden K and P ids
OverrideStep(st, km, P, overrides) ==
    IF km.id \in DOMAIN overrides /\ overrides[km.id] \in Ids(P)
    THEN LET m == BuildMatch(km, PolyById(P, overrides[km.id]), 10000)
         IN  [matches |-> Append(st.matches, m),
              cache   |-> (km.id :> m) @@ st.cache,
              ok      |-> st.ok \cup {km.id},
              op      |-> st.op \cup {m.p.id}]
    ELSE st

RECURSIVE OverrideLoop(_, _, _, _)
OverrideLoop(st, K, P, overrides) ==
    IF K = <<>> THEN st
    ELSE OverrideLoop(OverrideStep(st, Head(K), P, overrides), Tail(K), P, overrides)

\* process.extractOne(query, choices, scorer=token_sort_ratio, score_cutoff):
\* the index and score of the first choice with the highest score, if that
\* score reaches the cutoff; idx = 0 stands for None
RECURSIVE ExtractFrom(_, _, _, _, _)
ExtractFrom(title, polyList, i, cutoff, best) ==
    IF i > Len(polyList) THEN best
    ELSE LET s == ScoreTable[title, polyList[i].title]
         IN  IF s >= cutoff /\ (best.idx = 0 \/ s > best.score)
             THEN ExtractFrom(title, polyList, i + 1, cutoff, [idx |-> i, score |-> s])
             ELSE ExtractFrom(title, polyList, i + 1, cutoff, best)

ExtractOne(title, polyList, cutoff) ==
    ExtractFrom(title, polyList, 1, cutoff, [idx |-> 0, score |-> 0])

\* a dict keyed by .key kept as the sequence of its items in insertion order
DictHas(d, key) == \E i \in DOMAIN d : d[i].key = key

DictGet(d, key) == d[CHOOSE i \in DOMAIN d : d[i].key = key]

DictPut(d, item) ==
    IF DictHas(d, item.key)
    THEN [i \in DOMAIN d |-> IF d[i].key = item.key THEN item ELSE d[i]]
    ELSE Append(d, item)

\* the candidate a cached pair contributes (matcher.py lines 93-98): the cached
\* MatchedMarket itself, under the key (K id, cached P id)
CachedCandidate(km, cached) ==
    [key |-> <<km.id, cached.p.id>>, score |-> cached.score, m |-> cached]

\* one iteration of the fuzzy loop of match(): st is [best, cache]
FuzzyStep(st, km, polyList, ok, excluded, threshold) ==
    IF km.id \in ok \/ km.id \in excluded THEN st
    ELSE IF km.id \in DOMAIN st.cache
    THEN LET c == CachedCandidate(km, st.cache[km.id])
         IN  IF ~DictHas(st.best, c.key) \/ c.score > DictGet(st.best, c.key).score
             THEN [st EXCEPT !.best = DictPut(st.best, c)]
             ELSE st
    ELSE LET r == ExtractOne(km.title, polyList, threshold)
         IN  IF r.idx = 0 THEN st
             ELSE LET pm  == polyList[r.idx]
                      key == <<km.id, pm.id>>
                      m   == BuildMatch(km, pm, r.score)
                  IN  IF ~DictHas(st.best, key) \/ r.score > DictGet(st.best, key).score
                      THEN [best  |-> DictPut(st.best, [key |-> key, score |-> r.score, m |-> m]),
                            cache |-> (km.id :> m) @@ st.cache]
                      ELSE st

RECURSIVE FuzzyLoop(_, _, _, _, _, _)
FuzzyLoop(st, K, polyList, ok, excluded, threshold) ==
    IF K = <<>> THEN st
    ELSE FuzzyLoop(FuzzyStep(st, Head(K), polyList, ok, excluded, threshold),
                   Tail(K), polyList, ok, excluded, threshold)

\* "each Kalshi market -> best Polymarket match": kalshi_best keyed by K id
RECURSIVE KalshiBest(_, _)
KalshiBest(best, acc) ==
    IF best = <<>> THEN acc
    ELSE LET e   == Head(best)
             kid == e.key[1]
         IN  IF ~DictHas(acc, kid) \/ e.score > DictGet(acc, kid).score
             THEN KalshiBest(Tail(best), DictPut(acc, [key |-> kid, score |-> e.score, m |-> e.m]))
             ELSE KalshiBest(Tail(best), acc)

\* a second reduction that keeps every K-market's pair
PolyBestKeepsAll(kbest, acc) == kbest

\* "also deduplicate per Polymarket market": poly_best keyed by P id
RECURSIVE PolyBest(_, _)
PolyBest(kbest, acc) ==
    IF kbest = <<>> THEN acc
    ELSE LET e   == Head(kbest)
             pid == e.m.p.id
         IN  IF ~DictHas(acc, pid) \/ e.score > DictGet(acc, pid).score
             THEN PolyBest(Tail(kbest), DictPut(acc, [key |-> pid, score |-> e.score, m |-> e.m]))
             ELSE PolyBest(Tail(kbest), acc)

\* list.sort(key=similarity_score, reverse=True): stable, descending
RECURSIVE InsertByScore(_, _)
InsertByScore(sorted, m) ==
    IF sorted = <<>> THEN <<m>>
    ELSE IF m.score > Head(sorted).score THEN <<m>> \o sorted
    ELSE <<Head(sorted)>> \o InsertByScore(Tail(sorted), m)

RECURSIVE SortByScore(_, _)
SortByScore(ms, acc) ==
    IF ms = <<>> THEN acc
    ELSE SortByScore(Tail(ms), InsertByScore(acc, Head(ms)))

\* MarketMatcher.match: the returned list and the cache it leaves
MatchResult(cache, overrides, excluded, threshold, K, P) ==
    IF K = <<>> \/ P = <<>> THEN [matched |-> <<>>, cache |-> cache]
    ELSE
    LET ov       == OverrideLoop([matches |-> <<>>, cache |-> cache, ok |-> {}, op |-> {}],
                                 K, P, overrides)
        polyList == SeqFilter(P, {pm \in Range(P) : pm.id \notin ov.op})
    IN  IF polyList = <<>> THEN [matched |-> ov.matches, cache |-> ov.cache]
        ELSE
        LET fz    == FuzzyLoop([best |-> <<>>, cache |-> ov.cache],
                               K, polyList, ov.ok, excluded, threshold)
            pbest == PolyBest(KalshiBest(fz.best, <<>>), <<>>)
            fuzzy == [i \in DOMAIN pbest |-> pbest[i].m]
        IN  [matched |-> SortByScore(ov.matches \o fuzzy, <<>>), cache |-> fz.cache]

(***************************************************************************)
(* Detector (src/src/arbitrage/detector.py)                                *)
(*                                                                         *)
(* An Outcome is [yes_price, no_price, yes_ask, no_ask, yes_depth,         *)
(* no_depth]: prices in mills, depths in thousandths of a contract.  The   *)
(* detector's input is a list of [mm, ko, po]: a MatchedMarket with its    *)
(* kalshi_outcome and polymarket_outcome (NoOutcome is Python's None).     *)
(***************************************************************************)
NoOutcome == [none |-> TRUE]

DirA == "YES on Kalshi + NO on Polymarket"

DirB == "YES on Polymarket + NO on Kalshi"

\* round(n * 10^k / d) to the nearest integer, ties to even, by long division
\* (the products stay within 32 bits); 0 <= r < d
RECURSIVE LongRoundDiv(_, _, _, _)
LongRoundDiv(q, r, d, k) ==
    IF k = 0
    THEN (IF 2 * r < d THEN q
          ELSE IF 2 * r > d THEN q + 1
          ELSE IF q % 2 = 0 THEN q ELSE q + 1)
    ELSE LongRoundDiv(10 * q + ((10 * r) \div d), (10 * r) % d, d, k - 1)

\* round(x, 4) of x micro-dollars, in units of 1e-4: a tie goes up iff up
RoundTie(x, up) ==
    LET q == x \div 100
        r == x - q * 100
    IN  IF r < 50 THEN q
        ELSE IF r > 50 THEN q + 1
        ELSE IF up THEN q + 1 ELSE q

\* round(cost, 4) and round(profit, 4) of _check_direction, profit being
\* 1.0 - cost: tie is [cost_up, profit_up, size_up], how the doubles fall at
\* a tie
RoundedCost(cost, tie) == RoundTie(cost, tie.cost_up)

RoundedProfit(cost, tie) ==
    RoundTie(1000000 - cost, IF cost >= 500000 THEN ~tie.cost_up ELSE tie.profit_up)

\* round(max_size, 2) of a size in thousandths, in hundredths: tie is how
\* the double falls at a tie
RoundedSize(size, tie) ==
    LET q == size \div 10
        r == size - q * 10
    IN  IF r < 5 THEN q
        ELSE IF r > 5 THEN q + 1
        ELSE IF tie.size_up THEN q + 1 ELSE q

Ties == [cost_up : BOOLEAN, profit_up : BOOLEAN, size_up : BOOLEAN]

\* round((profit / cost) * 100.0, 2), in hundredths of a percent
Roi(profit, cost) == LongRoundDiv(profit \div cost, profit % cost, cost, 4)

\* _effective_cost, in micro-dollars, of prices and fee rates in mills
EffectiveCost(yes_price, no_price, yes_fee_rate, no_fee_rate) ==
    LET fee_if_yes_wins == Max(0, 1000 - yes_price) * yes_fee_rate
        fee_if_no_wins  == Max(0, 1000 - no_price) * no_fee_rate
        worst_fee       == Max(fee_if_yes_wins, fee_if_no_wins)
    IN  1000 * (yes_price + no_price) + worst_fee

\* a YES leg always priced at the mid
YesLegMid(o) == o.yes_price

\* the leg prices _check_direction uses: the ask when positive, else the mid
YesLegPrice(o) == IF o.yes_ask > 0 THEN o.yes_ask ELSE o.yes_price

NoLegPrice(o) == IF o.no_ask > 0 THEN o.no_ask ELSE o.no_price

\* a max_size that looks at the YES leg's depth only
MaxSizeYesDepth(yes_outcome, no_outcome) == yes_outcome.yes_depth

\* a max_size that is 0 as soon as one depth is unknown
MaxSizeZeroIfUnknown(yes_outcome, no_outcome) ==
    IF yes_outcome.yes_depth > 0 /\ no_outcome.no_depth > 0
    THEN Min(yes_outcome.yes_depth, no_outcome.no_depth)
    ELSE 0

\* max_size of _check_direction, before rounding (0 stands for "unknown")
MaxSize(yes_outcome, no_outcome) ==
    IF yes_outcome.yes_depth > 0 /\ no_outcome.no_depth > 0
    THEN Min(yes_outcome.yes_depth, no_outcome.no_depth)
    ELSE IF yes_outcome.yes_depth > 0 THEN yes_outcome.yes_depth
    ELSE IF no_outcome.no_depth > 0 THEN no_outcome.no_depth
    ELSE 0

\* a test that would also drop a profit equal to the minimum
BelowOrAtMinimum(profit, min_profit) == profit <= min_profit

\* the test that drops a direction: profit < min_profit (both in micro-dollars)
BelowMinimum(profit, min_profit) == profit < min_profit

\* _check_direction: <<>> for None, else <<the ArbitrageOpportunity>>.
\* min_profit is in micro-dollars; the opportunity's cost and profit are in
\* units of 1e-4, its roi in hundredths of a percent, its max_size in hundredths
CheckDirection(mm, direction, yes_outcome, no_outcome, yes_fee_rate, no_fee_rate, min_profit, tie) ==
    LET yes_price == YesLegPrice(yes_outcome)
        no_price  == NoLegPrice(no_outcome)
        cost      == EffectiveCost(yes_price, no_price, yes_fee_rate, no_fee_rate)
        profit    == 1000000 - cost
    IN  IF yes_price <= 0 \/ no_price <= 0 THEN <<>>
        ELSE IF BelowMinimum(profit, min_profit) THEN <<>>
        ELSE << [ mm        |-> mm,
                  direction |-> direction,
                  cost      |-> RoundedCost(cost, tie),
                  profit    |-> RoundedProfit(cost, tie),
                  roi       |-> IF cost > 0 THEN Roi(profit, cost) ELSE 0,
                  max_size  |-> RoundedSize(MaxSize(yes_outcome, no_outcome), tie),
                  kalshi_price     |-> IF direction = DirA THEN yes_price ELSE no_price,
                  polymarket_price |-> IF direction = DirA THEN no_price ELSE yes_price ] >>

\* direction B with the fee rates of direction A
DirectionBFeesOfA(v, kfee, pfee, min_profit, tie) ==
    CheckDirection(v.mm, DirB, v.po, v.ko, kfee, pfee, min_profit, tie)

\* the two directions of one matched pair (the body of detect_opportunities' loop)
DirectionA(v, kfee, pfee, min_profit, tie) ==
    CheckDirection(v.mm, DirA, v.ko, v.po, kfee, pfee, min_profit, tie)

DirectionB(v, kfee, pfee, min_profit, tie) ==
    CheckDirection(v.mm, DirB, v.po, v.ko, pfee, kfee, min_profit, tie)

\* ties[i] is how the doubles of the i-th pair fall at a rounding tie
RECURSIVE DetectLoop(_, _, _, _, _)
DetectLoop(vs, kfee, pfee, min_profit, ties) ==
    IF vs = <<>> THEN <<>>
    ELSE LET v == Head(vs)
             t == Head(ties)
         IN  (IF v.ko = NoOutcome \/ v.po = NoOutcome THEN <<>>
              ELSE DirectionA(v, kfee, pfee, min_profit, t)
                   \o DirectionB(v, kfee, pfee, min_profit, t))
             \o DetectLoop(Tail(vs), kfee, pfee, min_profit, Tail(ties))

\* a sort that leaves the list in detection order
KeepOrder(os, acc) == acc \o os

\* opportunities.sort(key=roi, reverse=True): stable, descending
RECURSIVE InsertByRoi(_, _)
InsertByRoi(sorted, o) ==
    IF sorted = <<>> THEN <<o>>
    ELSE IF o.roi > Head(sorted).roi THEN <<o>> \o sorted
    ELSE <<Head(sorted)>> \o InsertByRoi(Tail(sorted), o)

RECURSIVE SortByRoi(_, _)
SortByRoi(os, acc) ==
    IF os = <<>> THEN acc
    ELSE SortByRoi(Tail(os), InsertByRoi(acc, Head(os)))

\* min_profit = min_profit_cents / 100.0: thousandths of a cent to micro-dollars
MinProfit(cents) == cents * 10

\* detect_opportunities(matched_markets, min_profit_cents)
DetectOpportunities(vs, cents, kfee, pfee, ties) ==
    SortByRoi(DetectLoop(vs, kfee, pfee, MinProfit(cents), ties), <<>>)

(***************************************************************************)
(* State                                                                   *)
(***************************************************************************)
VARIABLES
    threshold,      \* MarketMatcher.threshold
    cache,          \* MarketMatcher._cache: K id -> MatchedMarket
    excluded,       \* MarketMatcher._excluded
    overrides,      \* MarketMatcher._manual_overrides: K id -> P id
    gen,            \* the number of fetches (Market object generations) so far
    lastMatch,      \* the arguments and the result of the latest match() call
    min_profit_cents,     \* settings.min_profit_cents, in thousandths of a cent
    kalshi_fee_rate,      \* settings.kalshi_fee_rate, in mills
    polymarket_fee_rate,  \* settings.polymarket_fee_rate, in mills
    views,          \* the matched markets handed to detect_opportunities
    lastDetect      \* the arguments and the result of the latest detect_opportunities call

matcherVars == <<threshold, cache, excluded, overrides, gen, lastMatch>>

detectorVars == <<min_profit_cents, kalshi_fee_rate, polymarket_fee_rate, views, lastDetect>>

VARIABLES
    executor,       \* the TradeExecutor's fields
    executing,      \* the execute() call awaiting its two legs: <<>> or <<call>>
    orders,         \* the leg orders placed so far, oldest first
    today           \* the current UTC date, as a day number

executorVars == <<executor, executing, orders, today>>

VARIABLES
    scan_interval_seconds,  \* settings.scan_interval_seconds
    match_similarity_threshold, \* settings.match_similarity_threshold
    auto_execute,           \* settings.auto_execute
    max_position_size_usd,  \* settings.max_position_size_usd, in hundredths
    task,           \* ArbitrageScanner._task and the frame of its _run_loop
    stop_event,     \* ArbitrageScanner._stop_event
    http,           \* the venue clients' _http: "none", "open" or "closed"
    ws_broadcast,   \* ArbitrageScanner._ws_broadcast
    stats,          \* ArbitrageScanner.stats
    kalshi_markets,     \* ArbitrageScanner.kalshi_markets
    polymarket_markets, \* ArbitrageScanner.polymarket_markets
    matched_markets,    \* ArbitrageScanner.matched_markets
    opportunities,      \* ArbitrageScanner.opportunities
    workers,        \* the to_thread workers running matcher.match
    stopper,        \* the frame of the latest stop() call
    callbacks,      \* the subscriber callbacks created so far
    bcast           \* the latest _broadcast: who was registered, who was sent what

VARIABLES
    rate            \* the coroutines gathered in batches and their HTTP calls in flight

VARIABLES
    enriched,       \* the Market objects whose outcomes hold order book values
    lastEnrich      \* the latest _enrich_orderbooks: the reads that failed, the views left

enrichVars == <<enriched, lastEnrich>>

VARIABLES
    get,            \* the GET a venue client is making, with what it has seen so far
    lastFetch,      \* the latest fetch_active_markets call and what it returned
    lastParse       \* the latest raw market parsed and the outcome stored for it

clientVars == <<get, lastFetch, lastParse>>

loopVars ==
    <<scan_interval_seconds, match_similarity_threshold, auto_execute,
      max_position_size_usd, task, stop_event, http, ws_broadcast, stats,
      kalshi_markets, polymarket_markets, matched_markets, opportunities,
      workers, stopper, callbacks, bcast, enrichVars, rate>>

scannerVars == <<clientVars, loopVars>>

vars == <<matcherVars, detectorVars, executorVars, scannerVars>>

\* Python's None, and a present optional value
None == <<>>

Some(v) == <<v>>

\* the number of match() calls (and of scanner ticks) explored
MaxGen == 2

\* settings.match_similarity_threshold, in hundredths of a percent
DefaultThreshold == 8000

Thresholds == {DefaultThreshold, 7000}

\* a threshold update_settings may set, in hundredths of a percent
RaisedThreshold == 9000

\* the override tables and exclusion sets market_overrides.json may hold
OverrideTables == UNION {[D -> PIds] : D \in SUBSET KIds}

ExclusionSets == {{}, {"K2"}}

NoCall == [K |-> <<>>, P |-> <<>>, matched |-> <<>>]

EmptyCache == [k \in {} |-> NoCall]

\* MarketMatcher.__init__ (with _load_overrides)
MatcherInit(tables, exclusions, thresholds) ==
    /\ threshold \in thresholds
    /\ cache = EmptyCache
    /\ excluded \in exclusions
    /\ overrides \in tables
    /\ gen = 0
    /\ lastMatch = NoCall

\* a call match(K, P) on freshly built Market objects
DoMatch(K, P) ==
    LET r == MatchResult(cache, overrides, excluded, threshold, K, P)
    IN  /\ cache' = r.cache
        /\ lastMatch' = [K |-> K, P |-> P, matched |-> r.matched]

Match ==
    /\ gen < MaxGen
    /\ gen' = gen + 1
    /\ \E kl \in ListsOf(KListings), pl \in ListsOf(PListings) :
          DoMatch([i \in DOMAIN kl |-> Market(kl[i], gen + 1)],
                  [i \in DOMAIN pl |-> Market(pl[i], gen + 1)])
    /\ UNCHANGED <<threshold, excluded, overrides>>

\* MarketMatcher.clear_cache
ClearCache ==
    /\ cache # EmptyCache
    /\ cache' = EmptyCache
    /\ UNCHANGED <<threshold, excluded, overrides, gen, lastMatch>>

\* settings (src/config.py) as the detector reads them
DefaultMinProfitCents == 2000

DefaultKalshiFee == 70

DefaultPolymarketFee == 20

DetectorIdle ==
    /\ min_profit_cents = DefaultMinProfitCents
    /\ kalshi_fee_rate = DefaultKalshiFee
    /\ polymarket_fee_rate = DefaultPolymarketFee
    /\ views = <<>>
    /\ lastDetect = [done |-> FALSE]

MatcherIdle == MatcherInit({EmptyCache}, {{}}, {DefaultThreshold})

\* TradeExecutor.cooldown_seconds
CooldownSeconds == 5

\* settings.max_position_size_usd, in hundredths
DefaultMaxPositionUsd == 10000

\* settings.max_daily_loss_usd, in dollars
DefaultMaxDailyLossUsd == 50

\* TradeExecutor.__init__ under settings.auto_execute = enable and
\* settings.min_profit_cents = cents; daily_reset_date 0 is the empty string
NewExecutor(enable, cents) ==
    [enabled            |-> enable,
     max_position_usd   |-> DefaultMaxPositionUsd,
     max_daily_loss_usd |-> DefaultMaxDailyLossUsd,
     min_profit_cents   |-> cents,
     cooldown_seconds   |-> CooldownSeconds,
     daily_pnl          |-> 0,
     daily_reset_date   |-> 0,
     last_execution     |-> None,
     execution_log      |-> <<>>]

ExecutorInit(enable) ==
    /\ executor = NewExecutor(enable, min_profit_cents)
    /\ executing = None
    /\ orders = <<>>
    /\ today = 1

ExecutorIdle == ExecutorInit(FALSE)

\* settings.scan_interval_seconds
DefaultScanInterval == 60

\* the frame of a broadcast: the list object iterated, whether it still is
\* scanner._ws_broadcast, the position in it, and the dead callbacks so far
NoFrame == [list |-> <<>>, aliased |-> FALSE, i |-> 0, dead |-> <<>>]

\* a task created by start(), before its first step.  pc is where _run_loop
\* is suspended, cancel whether a cancellation is pending, backoff the local
\* of _run_loop, sleep the seconds of the sleep in progress, tick the
\* generation of the tick in progress; streak counts the ticks that failed
\* in a row and waited is what the loop awaited before the tick in progress
NewTask(id) ==
    [id |-> id, pc |-> "created", cancel |-> FALSE, backoff |-> 1, sleep |-> 0,
     tick |-> 0, streak |-> 0, waited |-> [kind |-> "none", seconds |-> 0],
     bc |-> NoFrame]

NoTask == [NewTask(0) EXCEPT !.pc = "none"]

\* no stop() call yet.  task is the task the call cancelled, began_in where
\* that task was suspended, restarted whether start() spawned a task since
\* the call began, timer_fired whether that task woke from a sleep or from
\* the inter-tick wait while the call was waiting for it
NoStop ==
    [pc |-> "idle", task |-> 0, began_in |-> "none", restarted |-> FALSE,
     timer_fired |-> FALSE]

NoBroadcast ==
    [tick |-> 0, at_publish |-> <<>>, data |-> <<>>, sent |-> <<>>, threw |-> {},
     unregistered |-> {}, finished |-> FALSE, after |-> <<>>]

\* no GET under way
NoGet ==
    [client |-> "none", path |-> "none", pc |-> "idle", attempt |-> 0, requests |-> 0,
     seen |-> <<>>, waits |-> <<>>]

\* the venue clients at rest
ClientsIdle ==
    /\ get = NoGet
    /\ lastFetch = [done |-> FALSE]
    /\ lastParse = [done |-> FALSE]

\* no _enrich_orderbooks call yet
NoEnrich == [tick |-> 0, failed |-> {}, views |-> <<>>]

\* settings.kalshi_max_rps and settings.polymarket_max_rps
DefaultMaxRps == 10

\* no batch gathered yet.  tasks lists the venue each gathered coroutine
\* calls, from is the number of tasks of the batches before the current one,
\* pending the tasks of the current batch whose GET is in flight
NoRate ==
    [pc |-> "idle", sweep |-> "none", kalshi_max_rps |-> DefaultMaxRps,
     polymarket_max_rps |-> DefaultMaxRps, tasks |-> <<>>, from |-> 0, pending |-> {}]

\* ArbitrageScanner.__init__
ScannerIdle ==
    /\ ClientsIdle
    /\ rate = NoRate
    /\ enriched = {}
    /\ lastEnrich = NoEnrich
    /\ scan_interval_seconds = DefaultScanInterval
    /\ match_similarity_threshold = DefaultThreshold
    /\ auto_execute = executor.enabled
    /\ max_position_size_usd = DefaultMaxPositionUsd
    /\ task = NoTask
    /\ stop_event = FALSE
    /\ http = [kalshi |-> "none", polymarket |-> "none"]
    /\ ws_broadcast = <<>>
    /\ stats = [kalshi_markets |-> 0, polymarket_markets |-> 0, matched_pairs |-> 0,
                active_opportunities |-> 0, total_scans |-> 0, last_scan |-> 0,
                is_running |-> FALSE, scan_interval |-> DefaultScanInterval,
                auto_execute |-> executor.enabled, errors |-> <<>>]
    /\ kalshi_markets = <<>>
    /\ polymarket_markets = <<>>
    /\ matched_markets = <<>>
    /\ opportunities = <<>>
    /\ workers = {}
    /\ stopper = NoStop
    /\ callbacks = {}
    /\ bcast = NoBroadcast

MatchInit ==
    /\ MatcherInit(OverrideTables, ExclusionSets, Thresholds)
    /\ DetectorIdle /\ ExecutorIdle /\ ScannerIdle

MatchNext == (Match \/ ClearCache) /\ UNCHANGED <<detectorVars, executorVars, scannerVars>>

\* the matcher alone: any sequence of match() and clear_cache() calls
SpecMatch == MatchInit /\ [][MatchNext]_vars

(***************************************************************************)
(* C1.  After any match(K, P), no K-market id occurs in more than one      *)
(* returned MatchedPair and no P-market id occurs in more than one         *)
(* returned MatchedPair, whatever the override table, the exclusion set    *)
(* and the cache left by earlier calls.                                    *)
(***************************************************************************)
UniqueK(ms) == \A i, j \in DOMAIN ms : ms[i].k.id = ms[j].k.id => i = j

UniqueP(ms) == \A i, j \in DOMAIN ms : ms[i].p.id = ms[j].p.id => i = j

C1_UniqueIds == UniqueK(lastMatch.matched) /\ UniqueP(lastMatch.matched)

(***************************************************************************)
(* C9.  Every MatchedPair returned by match() pairs a K-market and a       *)
(* P-market whose ids are both in the current call's input lists: a cache  *)
(* entry is used only if its P-market is still present.                    *)
(***************************************************************************)
C9_PairsFromCurrentInputs ==
    \A i \in DOMAIN lastMatch.matched :
        /\ lastMatch.matched[i].k.id \in Ids(lastMatch.K)
        /\ lastMatch.matched[i].p.id \in Ids(lastMatch.P)

\* the K ids of the latest call whose override target is among its P-markets
Served ==
    {k \in Ids(lastMatch.K) \cap DOMAIN overrides : overrides[k] \in Ids(lastMatch.P)}

PairsOf(k) == {i \in DOMAIN lastMatch.matched : lastMatch.matched[i].k.id = k}

(***************************************************************************)
(* C11.  If the override table maps a K-market to a P-market and both are  *)
(* in the current call, match() returns exactly one pair containing that   *)
(* K-market, the override pair with similarity 100, and the override's     *)
(* P-market is withheld from the fuzzy stage: no pair of a K-market that   *)
(* is not served by an override contains it.                               *)
(***************************************************************************)
C11_OverridePairs ==
    \A k \in Served :
        /\ Cardinality(PairsOf(k)) = 1
        /\ \A i \in PairsOf(k) :
              /\ lastMatch.matched[i].p.id = overrides[k]
              /\ lastMatch.matched[i].score = 10000

C12_MissingTargetNoPair ==
    \A k \in Ids(lastMatch.K) \cap DOMAIN overrides :
        overrides[k] \notin Ids(lastMatch.P) => PairsOf(k) = {}

\* The fuzzy stage of a call c = [K, P, matched] as section 4.2 describes it.
\* FuzzyK: the positions in c.K of the K-markets that are neither served by
\* an override nor excluded; FuzzyP: the P-markets no override of the call
\* targets
ServedIn(c) == {k \in Ids(c.K) \cap DOMAIN overrides : overrides[k] \in Ids(c.P)}

FuzzyK(c) == {i \in DOMAIN c.K : c.K[i].id \notin ServedIn(c) \cup excluded}

FuzzyP(c) == {j \in DOMAIN c.P : c.P[j].id \notin {overrides[k] : k \in ServedIn(c)}}

TitleScore(km, pm) == ScoreTable[km.title, pm.title]

\* the positions in c.P of the P-markets scoring highest against km among
\* those reaching the cutoff th
TopScoring(c, km, th) ==
    {j \in FuzzyP(c) :
        /\ TitleScore(km, c.P[j]) >= th
        /\ \A l \in FuzzyP(c) : TitleScore(km, c.P[l]) <= TitleScore(km, c.P[j])}

\* the candidate of the K-market at position i, given the cache before
\* the call: <<>> if it has none (the fuzzy stage does not run when no
\* P-market is left for it), else <<[p, score]>>
CandidateOf(c, before, th, i) ==
    LET km == c.K[i]
    IN  IF FuzzyP(c) = {} THEN <<>>
        ELSE IF km.id \in DOMAIN before
        THEN <<[p |-> before[km.id].p.id, score |-> before[km.id].score]>>
        ELSE IF TopScoring(c, km, th) = {} THEN <<>>
        ELSE LET j == CHOOSE j \in TopScoring(c, km, th) :
                          \A l \in TopScoring(c, km, th) : j <= l
             IN  <<[p |-> c.P[j].id, score |-> TitleScore(km, c.P[j])]>>

\* the K-markets of the fuzzy stage whose candidate is the P-market pid
Claimants(c, before, th, pid) ==
    {i \in FuzzyK(c) :
        /\ CandidateOf(c, before, th, i) # <<>>
        /\ CandidateOf(c, before, th, i)[1].p = pid}

PairsIn(c, k) == {i \in DOMAIN c.matched : c.matched[i].k.id = k}

\* of the claimants of pid exactly one is paired, with pid at the highest
\* of their scores, and the others are in no pair
OneClaimantWins(c, before, th, pid) ==
    LET cl  == Claimants(c, before, th, pid)
        won == {i \in cl : PairsIn(c, c.K[i].id) # {}}
    IN  Cardinality(cl) >= 2 =>
            /\ Cardinality(won) = 1
            /\ \A i \in won : \A n \in PairsIn(c, c.K[i].id) :
                  /\ c.matched[n].p.id = pid
                  /\ c.matched[n].score = CandidateOf(c, before, th, i)[1].score
                  /\ \A l \in cl : CandidateOf(c, before, th, l)[1].score <= c.matched[n].score

(***************************************************************************)
(* C13.  When several K-markets of the fuzzy stage have the same P-market  *)
(* as their candidate, match() emits one pair for them, the one with the   *)
(* highest score, and the other K-markets appear in no pair (they are not  *)
(* reassigned to another P-market).                                        *)
(***************************************************************************)
C13_BestClaimantOnly ==
    [][gen' # gen =>
          \A pid \in PIds : OneClaimantWins(lastMatch', cache, threshold, pid)]_vars

\* in a first call both K-markets scored best against P1, K2 tying P1 with
\* P2 at the cutoff or above: K1-P1 is the only pair and K2 is left out
C13_Witness ==
    /\ gen = 1
    /\ Len(lastMatch.K) = 2 /\ Len(lastMatch.P) = 2
    /\ Cardinality(Claimants(lastMatch, EmptyCache, threshold, "P1")) = 2
    /\ \E i \in DOMAIN lastMatch.K : \E j \in DOMAIN lastMatch.P :
          /\ lastMatch.K[i].id = "K2" /\ lastMatch.P[j].id = "P2"
          /\ TitleScore(lastMatch.K[i], lastMatch.P[j]) >= threshold
    /\ Len(lastMatch.matched) = 1
    /\ lastMatch.matched[1].k.id = "K1"
    /\ PairsIn(lastMatch, "K2") = {}

\* the K-market at position i has a cache entry before the call, and a
\* P-market of the call reaches the cutoff with a score above the cached one
Outscored(c, before, th, i) ==
    /\ i \in FuzzyK(c)
    /\ c.K[i].id \in DOMAIN before
    /\ \E j \in TopScoring(c, c.K[i], th) :
          TitleScore(c.K[i], c.P[j]) > before[c.K[i].id].score

(***************************************************************************)
(* C14.  A cached pair is only a scoring candidate: for a K-market with a  *)
(* cache entry the extraction over the call's P titles still runs, and if  *)
(* a P-market of the call scores above the cached score (and reaches the   *)
(* threshold) the K-market is paired with that P-market, not the cached    *)
(* one: any pair the call returns for it has the higher score.             *)
(***************************************************************************)
C14_CacheIsCandidate ==
    [][gen' # gen =>
          \A i \in DOMAIN lastMatch'.K :
              Outscored(lastMatch', cache, threshold, i) =>
                  \A n \in PairsIn(lastMatch', lastMatch'.K[i].id) :
                      \E j \in TopScoring(lastMatch', lastMatch'.K[i], threshold) :
                          /\ lastMatch'.matched[n].p.id = lastMatch'.P[j].id
                          /\ lastMatch'.matched[n].score
                                = TitleScore(lastMatch'.K[i], lastMatch'.P[j])]_vars

(***************************************************************************)
(* The detector alone: detect_opportunities applied once to a list of at   *)
(* most two matched pairs, under any of the settings below.                *)
(***************************************************************************)
Outcome(yp, np, ya, na, yd, nd) ==
    [yes_price |-> yp, no_price |-> np, yes_ask |-> ya, no_ask |-> na,
     yes_depth |-> yd, no_depth |-> nd]

\* primary outcomes venue K may show: mid-only 0.5/0.5; asks 0.455/0.49 with
\* a YES depth; no YES price and NO at 0.305; asks 0.456/0.52; asks 0.005/0.49
KOutcomes ==
    { Outcome(500, 500, 0, 0, 0, 0),
      Outcome(440, 560, 455, 490, 100000, 0),
      Outcome(0, 305, 0, 0, 0, 0),
      Outcome(450, 550, 456, 520, 0, 25005),
      Outcome(10, 550, 5, 490, 100000, 40000) }

\* primary outcomes venue P may show: mid-only 0.5/0.5; asks 0.48/0.50 with
\* depth; mid-only 0.3/0.7; asks 0.97/0.001
POutcomes ==
    { Outcome(500, 500, 0, 0, 0, 0),
      Outcome(490, 510, 480, 500, 60000, 60000),
      Outcome(300, 700, 0, 0, 0, 0),
      Outcome(980, 20, 970, 1, 0, 0) }

\* the i-th matched pair of a detector input
DetectorPair(i) ==
    BuildMatch([id |-> <<"K1", "K2">>[i], title |-> TitleABC, gen |-> 0],
               [id |-> <<"P1", "P2">>[i], title |-> TitleABC, gen |-> 0], 10000)

ViewsOf(kos, pos) ==
    {<<>>}
    \cup {<<[mm |-> DetectorPair(1), ko |-> a, po |-> b]>> : a \in kos, b \in pos}
    \cup {<<[mm |-> DetectorPair(1), ko |-> a, po |-> b],
            [mm |-> DetectorPair(2), ko |-> c, po |-> d]>> :
            a \in kos, b \in pos, c \in kos, d \in pos}

MinProfitChoices == {0, 591, DefaultMinProfitCents}

FeeChoices == {<<DefaultKalshiFee, DefaultPolymarketFee>>, <<0, 0>>}

DetectInit ==
    /\ MatcherIdle
    /\ min_profit_cents \in MinProfitChoices
    /\ \E f \in FeeChoices : kalshi_fee_rate = f[1] /\ polymarket_fee_rate = f[2]
    /\ views \in ViewsOf(KOutcomes \cup {NoOutcome}, POutcomes \cup {NoOutcome})
    /\ lastDetect = [done |-> FALSE]
    /\ ExecutorIdle /\ ScannerIdle

\* a call detect_opportunities(views, settings.min_profit_cents)
Detect ==
    /\ ~lastDetect.done
    /\ \E ties \in [DOMAIN views -> Ties] :
          lastDetect' =
            [done |-> TRUE, views |-> views, min_profit_cents |-> min_profit_cents,
             kfee |-> kalshi_fee_rate, pfee |-> polymarket_fee_rate,
             opportunities |->
                 DetectOpportunities(views, min_profit_cents, kalshi_fee_rate,
                                     polymarket_fee_rate, ties)]
    /\ UNCHANGED <<min_profit_cents, kalshi_fee_rate, polymarket_fee_rate, views>>

DetectNext == Detect /\ UNCHANGED <<matcherVars, executorVars, scannerVars>>

SpecDetect == DetectInit /\ [][DetectNext]_vars

\* the legs of direction dir of view v, as section 4.3 assigns them
YesOutcomeOf(v, dir) == IF dir = DirA THEN v.ko ELSE v.po

NoOutcomeOf(v, dir) == IF dir = DirA THEN v.po ELSE v.ko

Evaluated(v, dir) ==
    /\ v.ko # NoOutcome /\ v.po # NoOutcome
    /\ YesLegPrice(YesOutcomeOf(v, dir)) > 0
    /\ NoLegPrice(NoOutcomeOf(v, dir)) > 0

\* 1 - cost of direction dir of view v in micro-dollars, from the formula of
\* section 4.3 with the fee rates d holds
ProfitOf(v, dir, d) ==
    LET y    == YesLegPrice(YesOutcomeOf(v, dir))
        n    == NoLegPrice(NoOutcomeOf(v, dir))
        yfee == IF dir = DirA THEN d.kfee ELSE d.pfee
        nfee == IF dir = DirA THEN d.pfee ELSE d.kfee
    IN  1000000 - (1000 * (y + n) + Max(Max(0, 1000 - y) * yfee, Max(0, 1000 - n) * nfee))

EmittedFor(d, i, dir) ==
    \E j \in DOMAIN d.opportunities :
        d.opportunities[j].mm = d.views[i].mm /\ d.opportunities[j].direction = dir

(***************************************************************************)
(* C2.  For every evaluated direction with both leg prices > 0, an         *)
(* Opportunity is emitted iff profit = 1 - cost >= min_profit_cents/100    *)
(* (profit equal to the minimum is emitted), and no emitted Opportunity    *)
(* has profit below the minimum.                                           *)
(***************************************************************************)
C2_EmittedIffAtLeastMin ==
    lastDetect.done =>
        \A i \in DOMAIN lastDetect.views : \A dir \in {DirA, DirB} :
            Evaluated(lastDetect.views[i], dir) =>
                (EmittedFor(lastDetect, i, dir)
                    <=> ProfitOf(lastDetect.views[i], dir, lastDetect)
                            >= lastDetect.min_profit_cents * 10)

\* the original statement, with its last clause read on the Opportunity's
\* stored profit (units of 1e-4 against a minimum in thousandths of a cent)
C2_Original ==
    /\ C2_EmittedIffAtLeastMin
    /\ lastDetect.done =>
          \A j \in DOMAIN lastDetect.opportunities :
              lastDetect.opportunities[j].profit * 10 >= lastDetect.min_profit_cents

\* amended: the stored profit (rounded to 4 decimals) is never more than
\* 0.00005 below the minimum
C2_Amended ==
    /\ C2_EmittedIffAtLeastMin
    /\ lastDetect.done =>
          \A j \in DOMAIN lastDetect.opportunities :
              lastDetect.opportunities[j].profit * 100
                  >= lastDetect.min_profit_cents * 10 - 50

\* a direction whose profit equals the minimum exactly (0.5/0.5, no fees,
\* minimum 0) has been emitted
C2_Witness ==
    /\ lastDetect.done
    /\ \E i \in DOMAIN lastDetect.views : \E dir \in {DirA, DirB} :
          /\ Evaluated(lastDetect.views[i], dir)
          /\ ProfitOf(lastDetect.views[i], dir, lastDetect) = 0
          /\ lastDetect.min_profit_cents = 0
          /\ EmittedFor(lastDetect, i, dir)

\* the cost of section 4.3 for direction dir of view v, in micro-dollars:
\* yes + no + max(max(0, 1 - yes) * yes_fee, max(0, 1 - no) * no_fee), with
\* K's fee on the leg bought on K and P's fee on the leg bought on P
CostOf(v, dir, d) == 1000000 - ProfitOf(v, dir, d)

\* the view an emitted opportunity came from
ViewOf(d, o) == CHOOSE i \in DOMAIN d.views : d.views[i].mm = o.mm

\* o.cost is CostOf rounded to 4 decimals (a tie may have gone either way)
CostAsFormula(d, o) ==
    LET c == CostOf(d.views[ViewOf(d, o)], o.direction, d)
    IN  /\ o.cost * 100 - c <= 50
        /\ c - o.cost * 100 <= 50

(***************************************************************************)
(* C3.  Every emitted Opportunity's cost is yes + no + max(max(0, 1 - yes) *)
(* * yes_fee, max(0, 1 - no) * no_fee), direction A with K's fee on the    *)
(* YES leg and P's on the NO leg, direction B with the fees swapped, and   *)
(* cost + profit = 1.0000 at 4-decimal precision.                          *)
(***************************************************************************)
C3_Original ==
    lastDetect.done =>
        \A j \in DOMAIN lastDetect.opportunities :
            LET o == lastDetect.opportunities[j]
            IN  CostAsFormula(lastDetect, o) /\ o.cost + o.profit = 10000

\* amended: the cost is the formula's value rounded to 4 decimals and
\* cost + profit is within 0.0001 of 1
C3_Amended ==
    lastDetect.done =>
        \A j \in DOMAIN lastDetect.opportunities :
            LET o == lastDetect.opportunities[j]
            IN  /\ CostAsFormula(lastDetect, o)
                /\ o.cost + o.profit \in {9999, 10000, 10001}

\* an opportunity of direction B was emitted under unequal fee rates, and
\* one whose cost and profit both rounded up
C3_Witness ==
    /\ lastDetect.done
    /\ lastDetect.kfee # lastDetect.pfee
    /\ \E j \in DOMAIN lastDetect.opportunities :
          lastDetect.opportunities[j].direction = DirB
    /\ \E j \in DOMAIN lastDetect.opportunities :
          lastDetect.opportunities[j].cost + lastDetect.opportunities[j].profit = 10001

\* the effective price of a leg: its ask if positive, else its mid
EffectivePrice(ask, mid) == IF ask > 0 THEN ask ELSE mid

YesPriceOf(v, dir) ==
    EffectivePrice(YesOutcomeOf(v, dir).yes_ask, YesOutcomeOf(v, dir).yes_price)

NoPriceOf(v, dir) ==
    EffectivePrice(NoOutcomeOf(v, dir).no_ask, NoOutcomeOf(v, dir).no_price)

\* 1 - cost in micro-dollars at the effective prices of direction dir
ProfitAt(v, dir, d) ==
    LET y    == YesPriceOf(v, dir)
        n    == NoPriceOf(v, dir)
        yfee == IF dir = DirA THEN d.kfee ELSE d.pfee
        nfee == IF dir = DirA THEN d.pfee ELSE d.kfee
    IN  1000000 - (1000 * (y + n) + Max(Max(0, 1000 - y) * yfee, Max(0, 1000 - n) * nfee))

\* direction dir of view i is emitted iff both effective prices are positive
\* and the profit at them reaches the minimum, and the opportunity records
\* the effective prices
DirectionAtEffectivePrices(d, i, dir) ==
    LET v == d.views[i]
    IN  /\ EmittedFor(d, i, dir) <=>
              /\ YesPriceOf(v, dir) > 0
              /\ NoPriceOf(v, dir) > 0
              /\ ProfitAt(v, dir, d) >= d.min_profit_cents * 10
        /\ \A j \in DOMAIN d.opportunities :
              (d.opportunities[j].mm = v.mm /\ d.opportunities[j].direction = dir) =>
                  /\ d.opportunities[j].kalshi_price
                        = (IF dir = DirA THEN YesPriceOf(v, dir) ELSE NoPriceOf(v, dir))
                  /\ d.opportunities[j].polymarket_price
                        = (IF dir = DirA THEN NoPriceOf(v, dir) ELSE YesPriceOf(v, dir))

(***************************************************************************)
(* C16.  For each leg the detector uses the leg's ask when it is positive  *)
(* and otherwise its mid price; a direction with a chosen price <= 0 emits *)
(* nothing, and each direction of a pair is decided on its own prices,     *)
(* whatever happens to the other direction.                                *)
(***************************************************************************)
C16_EffectiveLegPrices ==
    lastDetect.done =>
        \A i \in DOMAIN lastDetect.views : \A dir \in {DirA, DirB} :
            (lastDetect.views[i].ko # NoOutcome /\ lastDetect.views[i].po # NoOutcome) =>
                DirectionAtEffectivePrices(lastDetect, i, dir)

\* direction A of a pair was skipped for a YES price of 0 while direction B
\* of the same pair was emitted, its NO leg priced at the mid (ask 0)
C16_Witness ==
    /\ lastDetect.done
    /\ \E i \in DOMAIN lastDetect.views :
          /\ lastDetect.views[i].ko # NoOutcome /\ lastDetect.views[i].po # NoOutcome
          /\ YesPriceOf(lastDetect.views[i], DirA) = 0
          /\ ~EmittedFor(lastDetect, i, DirA)
          /\ lastDetect.views[i].ko.no_ask = 0
          /\ lastDetect.views[i].ko.no_price > 0
          /\ \E j \in DOMAIN lastDetect.opportunities :
                /\ lastDetect.opportunities[j].mm = lastDetect.views[i].mm
                /\ lastDetect.opportunities[j].direction = DirB
                /\ lastDetect.opportunities[j].kalshi_price = lastDetect.views[i].ko.no_price

\* the depths behind an emitted opportunity o, in thousandths: the YES
\* leg's yes_depth and the NO leg's no_depth (0 is unknown)
YesDepthOf(d, o) == YesOutcomeOf(d.views[ViewOf(d, o)], o.direction).yes_depth

NoDepthOf(d, o) == NoOutcomeOf(d.views[ViewOf(d, o)], o.direction).no_depth

\* the minimum of the two depths, an unknown depth counting as +infinity,
\* and 0 when the minimum is +infinity
KnownDepths(d, o) == {x \in {YesDepthOf(d, o), NoDepthOf(d, o)} : x > 0}

MinKnownDepth(d, o) ==
    IF KnownDepths(d, o) = {} THEN 0
    ELSE CHOOSE m \in KnownDepths(d, o) : \A x \in KnownDepths(d, o) : m <= x

\* max_size (hundredths) is the size x (thousandths) rounded to 2 decimals
RoundsTo(x, max_size) == max_size * 10 - x <= 5 /\ x - max_size * 10 <= 5

(***************************************************************************)
(* C17.  An emitted Opportunity's max_size is the minimum of the YES leg's *)
(* yes_depth and the NO leg's no_depth, a missing (0) depth counting as    *)
(* +infinity: with exactly one depth known it equals that depth, with both *)
(* missing it is 0.                                                        *)
(***************************************************************************)
C17_Original ==
    lastDetect.done =>
        \A j \in DOMAIN lastDetect.opportunities :
            lastDetect.opportunities[j].max_size * 10
                = MinKnownDepth(lastDetect, lastDetect.opportunities[j])

\* amended: max_size is that minimum rounded to 2 decimals
C17_Amended ==
    lastDetect.done =>
        \A j \in DOMAIN lastDetect.opportunities :
            RoundsTo(MinKnownDepth(lastDetect, lastDetect.opportunities[j]),
                     lastDetect.opportunities[j].max_size)

\* an opportunity was emitted whose only known depth is 25.005, stored
\* rounded, and one with both depths missing and max_size 0
C17_Witness ==
    /\ lastDetect.done
    /\ \E j \in DOMAIN lastDetect.opportunities :
          /\ KnownDepths(lastDetect, lastDetect.opportunities[j]) = {25005}
          /\ 0 \in {YesDepthOf(lastDetect, lastDetect.opportunities[j]),
                     NoDepthOf(lastDetect, lastDetect.opportunities[j])}
          /\ lastDetect.opportunities[j].max_size \in {2500, 2501}
    /\ \E j \in DOMAIN lastDetect.opportunities :
          /\ KnownDepths(lastDetect, lastDetect.opportunities[j]) = {}
          /\ lastDetect.opportunities[j].max_size = 0

(***************************************************************************)
(* C18.  An emitted Opportunity's max_size is the minimum of the two legs' *)
(* depths, and is 0 whenever any one of the two depths is unknown (0).     *)
(***************************************************************************)
C18_Original ==
    lastDetect.done =>
        \A j \in DOMAIN lastDetect.opportunities :
            LET o == lastDetect.opportunities[j]
            IN  IF YesDepthOf(lastDetect, o) > 0 /\ NoDepthOf(lastDetect, o) > 0
                THEN RoundsTo(Min(YesDepthOf(lastDetect, o), NoDepthOf(lastDetect, o)),
                              o.max_size)
                ELSE o.max_size = 0

\* amended: with both depths known max_size is their minimum (rounded to 2
\* decimals); with one depth unknown it is the other depth (rounded); it is
\* 0 for unknown depths only when both are unknown
C18_Amended ==
    lastDetect.done =>
        \A j \in DOMAIN lastDetect.opportunities :
            LET o  == lastDetect.opportunities[j]
                yd == YesDepthOf(lastDetect, o)
                nd == NoDepthOf(lastDetect, o)
            IN  /\ (yd > 0 /\ nd > 0) => RoundsTo(Min(yd, nd), o.max_size)
                /\ (yd > 0 /\ nd = 0) => RoundsTo(yd, o.max_size)
                /\ (yd = 0 /\ nd > 0) => RoundsTo(nd, o.max_size)
                /\ (yd = 0 /\ nd = 0) => o.max_size = 0

\* an opportunity was emitted whose NO leg's depth is unknown and whose
\* max_size is its YES leg's depth, 100
C18_Witness ==
    /\ lastDetect.done
    /\ \E j \in DOMAIN lastDetect.opportunities :
          /\ YesDepthOf(lastDetect, lastDetect.opportunities[j]) = 100000
          /\ NoDepthOf(lastDetect, lastDetect.opportunities[j]) = 0
          /\ lastDetect.opportunities[j].max_size = 10000

(***************************************************************************)
(* C19.  The list detect_opportunities returns is sorted by roi in         *)
(* descending order, for any list of matched pairs (both directions of one *)
(* pair may appear).                                                       *)
(***************************************************************************)
C19_SortedByRoi ==
    lastDetect.done =>
        \A i, j \in DOMAIN lastDetect.opportunities :
            i < j => lastDetect.opportunities[i].roi >= lastDetect.opportunities[j].roi

\* both directions of the first pair were emitted and an opportunity of the
\* second pair, detected after them, comes first with a higher roi
C19_Witness ==
    /\ lastDetect.done
    /\ Len(lastDetect.opportunities) >= 3
    /\ lastDetect.opportunities[1].mm = DetectorPair(2)
    /\ \A dir \in {DirA, DirB} :
          \E j \in DOMAIN lastDetect.opportunities :
              /\ lastDetect.opportunities[j].mm = DetectorPair(1)
              /\ lastDetect.opportunities[j].direction = dir
              /\ lastDetect.opportunities[j].roi < lastDetect.opportunities[1].roi

(***************************************************************************)
(* The executor.  opp.profit is in units of 1e-4, min_profit_cents in      *)
(* thousandths of a cent, sizes in hundredths, daily_pnl in micro-dollars; *)
(* last_execution holds the whole seconds elapsed since the last           *)
(* successful execution, counted up to cooldown_seconds.                   *)
(***************************************************************************)
ExecutionRecord(opp, success, error, pnl) ==
    [opportunity |-> opp, success |-> success, error |-> error, pnl |-> pnl]

\* _reset_daily_if_needed on the date date
ResetDailyIfNeeded(ex, date) ==
    IF ex.daily_reset_date # date
    THEN [ex EXCEPT !.daily_pnl = 0, !.daily_reset_date = date]
    ELSE ex

\* a position size that ignores max_position_usd
PositionSizeUncapped(ex, opp) == opp.max_size

\* position_size as _check_guardrails and execute both compute it
PositionSize(ex, opp) ==
    IF opp.max_size > 0 THEN Min(opp.max_size, ex.max_position_usd)
    ELSE ex.max_position_usd

\* a profit check that lets every opportunity through
ProfitCheckSkipped(ex, opp) == FALSE

\* opp.profit * 100 < self.min_profit_cents
ProfitBelowMinimum(ex, opp) == opp.profit * 10 < ex.min_profit_cents

\* a cooldown check that never rejects
CooldownIgnored(ex) == FALSE

\* the last execution was less than cooldown_seconds ago
CooldownActive(ex) ==
    ex.last_execution # None /\ ex.last_execution[1] < ex.cooldown_seconds

\* _check_guardrails: the error message ("" for None) and the executor
\* after the daily reset it may have done
CheckGuardrails(ex, opp, date) ==
    IF ~ex.enabled THEN [error |-> "Auto-execution is disabled", ex |-> ex]
    ELSE LET e == ResetDailyIfNeeded(ex, date)
         IN  [ex    |-> e,
              error |->
                IF e.daily_pnl < 0 - e.max_daily_loss_usd * 1000000
                THEN "Daily loss limit reached"
                ELSE IF ProfitBelowMinimum(e, opp)
                THEN "Profit below minimum"
                ELSE IF CooldownActive(e)
                THEN "Cooldown active"
                ELSE IF PositionSize(e, opp) <= 0
                THEN "No executable size available"
                ELSE ""]

\* execute up to its await of the two legs: the executor afterwards and the
\* call left awaiting (None when a guardrail returned a record at once)
ExecuteStart(ex, opp, date) ==
    LET g == CheckGuardrails(ex, opp, date)
    IN  IF g.error # ""
        THEN [executor  |-> [g.ex EXCEPT !.execution_log =
                                Append(@, ExecutionRecord(opp, FALSE, g.error, 0))],
              executing |-> None]
        ELSE [executor  |-> g.ex,
              executing |-> Some([opportunity   |-> opp,
                                  position_size |-> PositionSize(g.ex, opp)])]

\* the two leg orders of a call, in the order gather lists them
Legs(call) ==
    IF call.opportunity.direction = DirA
    THEN << [venue |-> "kalshi", side |-> "yes", opportunity |-> call.opportunity,
             size |-> call.position_size],
            [venue |-> "polymarket", side |-> "no", opportunity |-> call.opportunity,
             size |-> call.position_size] >>
    ELSE << [venue |-> "polymarket", side |-> "yes", opportunity |-> call.opportunity,
             size |-> call.position_size],
            [venue |-> "kalshi", side |-> "no", opportunity |-> call.opportunity,
             size |-> call.position_size] >>

\* an execute that books the estimate as a loss
ExecuteFinishLoss(ex, call) ==
    LET estimated_pnl == call.opportunity.profit * call.position_size
    IN  [ex EXCEPT !.daily_pnl = @ - estimated_pnl,
                   !.last_execution = Some(0),
                   !.execution_log =
                       Append(@, ExecutionRecord(call.opportunity, TRUE, "", estimated_pnl))]

\* execute after both legs returned
ExecuteFinish(ex, call) ==
    LET estimated_pnl == call.opportunity.profit * call.position_size
    IN  [ex EXCEPT !.daily_pnl = @ + estimated_pnl,
                   !.last_execution = Some(0),
                   !.execution_log =
                       Append(@, ExecutionRecord(call.opportunity, TRUE, "", estimated_pnl))]

\* str(exc) of the exception a leg raised
LegError(leg) ==
    IF leg.venue = "kalshi" THEN "kalshi order failed" ELSE "polymarket order failed"

\* the last exception in results, in leg order
LastError(legs, raised) ==
    LegError(legs[CHOOSE i \in 1..2 : raised[i] /\ \A j \in (i + 1)..2 : ~raised[j]])

\* errors[0]: the first exception in results, in leg order; raised[i] says
\* that results[i] is an exception
FirstError(legs, raised) ==
    LegError(legs[CHOOSE i \in 1..2 : raised[i] /\ \A j \in 1..(i - 1) : ~raised[j]])

\* execute after gather returned the results of the two legs
ExecuteAfterLegs(ex, call, raised) ==
    IF \E i \in 1..2 : raised[i]
    THEN [ex EXCEPT !.execution_log =
             Append(@, ExecutionRecord(call.opportunity, FALSE,
                                       FirstError(Legs(call), raised), 0))]
    ELSE ExecuteFinish(ex, call)

\* an update_settings that applies nothing
SuppliedIgnored(arg, old) == old

\* the value a field has after "if arg is not None: field = arg"
Supplied(arg, old) == IF arg # None THEN arg[1] ELSE old

\* ArbitrageScanner.update_settings; an argument is None or Some(value)
UpdateSettings(scan_interval, cents, match_threshold, enable, max_position_usd) ==
    /\ scan_interval_seconds' = Supplied(scan_interval, scan_interval_seconds)
    /\ min_profit_cents' = Supplied(cents, min_profit_cents)
    /\ match_similarity_threshold' = Supplied(match_threshold, match_similarity_threshold)
    /\ threshold' = Supplied(match_threshold, threshold)
    /\ auto_execute' = Supplied(enable, auto_execute)
    /\ max_position_size_usd' = Supplied(max_position_usd, max_position_size_usd)
    /\ cache' = IF match_threshold # None THEN EmptyCache ELSE cache
    /\ executor' =
          [executor EXCEPT
              !.min_profit_cents = Supplied(cents, @),
              !.enabled = Supplied(enable, @),
              !.max_position_usd = Supplied(max_position_usd, @)]
    /\ stats' =
          [stats EXCEPT
              !.scan_interval = Supplied(scan_interval, @),
              !.auto_execute = Supplied(enable, @)]
    /\ UNCHANGED <<excluded, overrides, gen, lastMatch, kalshi_fee_rate,
                   polymarket_fee_rate, views, lastDetect, clientVars, enrichVars, rate,
                   executing,
                   orders, today,
                   task, stop_event, http, ws_broadcast, kalshi_markets,
                   polymarket_markets, matched_markets, opportunities, workers,
                   stopper, callbacks, bcast>>

(***************************************************************************)
(* The executor driven directly: opportunities are detected once, settings *)
(* are updated, time passes, and execute is called on any detected         *)
(* opportunity.                                                            *)
(***************************************************************************)
\* the number of execute calls explored
MaxLog == 2

\* the number of days explored
MaxDay == 2

ExecKOutcomes ==
    { Outcome(400, 600, 0, 0, 0, 0),
      Outcome(800, 200, 0, 0, 0, 0),
      Outcome(400, 600, 410, 610, 2500, 0) }

ExecPOutcomes == { Outcome(500, 500, 0, 0, 0, 0), Outcome(200, 800, 0, 0, 0, 0) }

ExecViews ==
    {<<[mm |-> DetectorPair(1), ko |-> a, po |-> b]>> : a \in ExecKOutcomes, b \in ExecPOutcomes}

ExecInit ==
    /\ MatcherIdle
    /\ min_profit_cents \in {DefaultMinProfitCents, 0 - 100000}
    /\ kalshi_fee_rate = DefaultKalshiFee
    /\ polymarket_fee_rate = DefaultPolymarketFee
    /\ views \in ExecViews
    /\ lastDetect = [done |-> FALSE]
    /\ \E enable \in BOOLEAN : ExecutorInit(enable)
    /\ ScannerIdle

Detected == IF lastDetect.done THEN lastDetect.opportunities ELSE <<>>

\* a call execute(opp) on the j-th detected opportunity, up to its first await
Execute(j) ==
    /\ executing = None
    /\ Len(executor.execution_log) < MaxLog
    /\ j \in DOMAIN Detected
    /\ LET r == ExecuteStart(executor, Detected[j], today)
       IN  executor' = r.executor /\ executing' = r.executing
    /\ UNCHANGED <<orders, today>>

\* both legs ran and returned: execute records the success
ExecuteLegsDone ==
    /\ executing # None
    /\ orders' = orders \o Legs(executing[1])
    /\ executor' = ExecuteFinish(executor, executing[1])
    /\ executing' = None
    /\ UNCHANGED today

\* a second passes
TimePasses ==
    /\ executor.last_execution # None
    /\ executor.last_execution[1] < executor.cooldown_seconds
    /\ executor' = [executor EXCEPT !.last_execution = Some(@[1] + 1)]
    /\ UNCHANGED <<executing, orders, today>>

\* midnight UTC passes
NewDay ==
    /\ today < MaxDay
    /\ today' = today + 1
    /\ UNCHANGED <<executor, executing, orders>>

ExecUpdateSettings ==
    \E cents \in {None, Some(7000)}, enable \in {None, Some(TRUE)},
       max_position_usd \in {None, Some(0), Some(100)} :
        /\ <<cents, enable, max_position_usd>> # <<None, None, None>>
        /\ UpdateSettings(None, cents, None, enable, max_position_usd)

ExecNext ==
    \/ Detect /\ UNCHANGED <<matcherVars, executorVars, scannerVars>>
    \/ (\E j \in DOMAIN Detected : Execute(j))
          /\ UNCHANGED <<matcherVars, detectorVars, scannerVars>>
    \/ ExecuteLegsDone /\ UNCHANGED <<matcherVars, detectorVars, scannerVars>>
    \/ TimePasses /\ UNCHANGED <<matcherVars, detectorVars, scannerVars>>
    \/ NewDay /\ UNCHANGED <<matcherVars, detectorVars, scannerVars>>
    \/ ExecUpdateSettings

SpecExec == ExecInit /\ [][ExecNext]_vars

\* some guardrail of the executor ex rejects opp on the date date
GuardrailFails(ex, opp, date) ==
    \/ ~ex.enabled
    \/ (IF ex.daily_reset_date = date THEN ex.daily_pnl ELSE 0)
          < 0 - ex.max_daily_loss_usd * 1000000
    \/ opp.profit * 10 < ex.min_profit_cents
    \/ ex.last_execution # None /\ ex.last_execution[1] < ex.cooldown_seconds
    \/ (IF opp.max_size > 0 THEN Min(opp.max_size, ex.max_position_usd)
        ELSE ex.max_position_usd) <= 0

LastRecord == executor.execution_log[Len(executor.execution_log)]

(***************************************************************************)
(* C4.  Whenever a guardrail check fails in execute (disabled, daily loss  *)
(* limit exceeded, opp.profit * 100 below the executor's current           *)
(* min_profit_cents, cooldown active, position size <= 0), no leg order is *)
(* placed and the record returned has success = false and a non-empty      *)
(* error.                                                                  *)
(***************************************************************************)
C4_GuardrailBlocks ==
    [][\A j \in DOMAIN Detected :
          (Execute(j) /\ GuardrailFails(executor, Detected[j], today)) =>
              /\ orders' = orders
              /\ executing' = None
              /\ executor'.execution_log =
                    Append(executor.execution_log,
                           executor'.execution_log[Len(executor.execution_log) + 1])
              /\ executor'.execution_log[Len(executor.execution_log) + 1].opportunity
                    = Detected[j]
              /\ ~executor'.execution_log[Len(executor.execution_log) + 1].success
              /\ executor'.execution_log[Len(executor.execution_log) + 1].error # ""]_vars

\* an opportunity detected under a lower minimum was rejected for its profit
\* after update_settings raised the minimum, and no order has been placed
C4_Witness ==
    /\ executor.execution_log # <<>>
    /\ LastRecord.error = "Profit below minimum"
    /\ ~LastRecord.success
    /\ lastDetect.min_profit_cents < executor.min_profit_cents
    /\ orders = <<>>

\* this step appended one record to the execution log
Recorded == Len(executor'.execution_log) = Len(executor.execution_log) + 1

NewRecord == executor'.execution_log[Len(executor'.execution_log)]

(***************************************************************************)
(* C20.  execute() rejects an opportunity when the last execution was less *)
(* than cooldown_seconds ago, so a success is recorded only when the last  *)
(* success before it is at least cooldown_seconds old; a blocked attempt   *)
(* leaves the time of the last execution as it was.                        *)
(***************************************************************************)
C20_Cooldown ==
    /\ [][\A j \in DOMAIN Detected :
            (/\ Execute(j)
             /\ executor.last_execution # None
             /\ executor.last_execution[1] < executor.cooldown_seconds) =>
                /\ Recorded
                /\ ~NewRecord.success
                /\ executing' = None
                /\ orders' = orders]_vars
    /\ [][(Recorded /\ NewRecord.success) =>
            \/ executor.last_execution = None
            \/ executor.last_execution[1] >= executor.cooldown_seconds]_vars
    /\ [][(Recorded /\ ~NewRecord.success) =>
            executor'.last_execution = executor.last_execution]_vars

\* two executions succeeded, the second once the cooldown had run out
C20_Witness ==
    /\ Len(executor.execution_log) = 2
    /\ executor.execution_log[1].success
    /\ executor.execution_log[2].success

(***************************************************************************)
(* C21.  When execute() gets past the guardrails, the size it hands to     *)
(* both legs is min(opp.max_size, max_position_usd) if opp.max_size > 0    *)
(* and max_position_usd if opp.max_size = 0, with max_position_usd the     *)
(* executor's value at that call; that size is positive and at most that   *)
(* max_position_usd, both orders placed carry it, and every placed order   *)
(* has a positive size.                                                    *)
(***************************************************************************)
C21_PositionSize ==
    /\ [][\A j \in DOMAIN Detected :
            (Execute(j) /\ executing' # None) =>
                LET opp  == Detected[j]
                    cap  == executor.max_position_usd
                    size == executing'[1].position_size
                IN  /\ opp.max_size > 0 /\ opp.max_size <= cap => size = opp.max_size
                    /\ opp.max_size > 0 /\ opp.max_size > cap => size = cap
                    /\ opp.max_size = 0 => size = cap
                    /\ 0 < size
                    /\ size <= cap]_vars
    /\ [][orders' # orders =>
            /\ executing # None
            /\ Len(orders') = Len(orders) + 2
            /\ SubSeq(orders', 1, Len(orders)) = orders
            /\ \A i \in (Len(orders) + 1)..Len(orders') :
                  /\ orders'[i].size = executing[1].position_size
                  /\ orders'[i].opportunity = executing[1].opportunity]_vars
    /\ [](\A i \in DOMAIN orders : orders[i].size > 0)

\* two orders were placed at max_position_usd, below the opportunity's
\* max_size, after update_settings lowered max_position_usd
C21_Witness ==
    /\ Len(orders) >= 2
    /\ orders[1].opportunity.max_size > 0
    /\ orders[1].size < orders[1].opportunity.max_size
    /\ orders[1].size = executor.max_position_usd
    /\ orders[2].size = orders[1].size

(***************************************************************************)
(* The executor with legs that may raise.  The four _buy_* coroutines of   *)
(* this repository log and return; execute() nevertheless reads what       *)
(* gather(..., return_exceptions=True) hands back, and an order call in    *)
(* their place can raise.  Here each leg either returns, its order placed, *)
(* or raises; the settings stay as the executor was constructed with.      *)
(***************************************************************************)
ExecuteLegsReturn ==
    /\ executing # None
    /\ \E raised \in [1..2 -> BOOLEAN] :
          /\ orders' = orders
                \o (IF raised[1] THEN <<>> ELSE <<Legs(executing[1])[1]>>)
                \o (IF raised[2] THEN <<>> ELSE <<Legs(executing[1])[2]>>)
          /\ executor' = ExecuteAfterLegs(executor, executing[1], raised)
    /\ executing' = None
    /\ UNCHANGED today

LegsNext ==
    \/ Detect /\ UNCHANGED <<matcherVars, executorVars, scannerVars>>
    \/ (\E j \in DOMAIN Detected : Execute(j))
          /\ UNCHANGED <<matcherVars, detectorVars, scannerVars>>
    \/ ExecuteLegsReturn /\ UNCHANGED <<matcherVars, detectorVars, scannerVars>>
    \/ TimePasses /\ UNCHANGED <<matcherVars, detectorVars, scannerVars>>

SpecLegs == ExecInit /\ [][LegsNext]_vars

\* the orders this step placed
Placed == SubSeq(orders', Len(orders) + 1, Len(orders'))

\* the legs of the awaited call that placed no order in this step
RaisedLegs == {i \in 1..2 : Legs(executing[1])[i] \notin Range(Placed)}

(***************************************************************************)
(* C23.  When the two legs of a call have ended, the attempt is recorded   *)
(* as a success exactly if neither leg raised.  On success daily_pnl grows *)
(* by profit * position_size and last_execution is set to now.  If a leg   *)
(* raised, the record has success = false and the error of the first leg,  *)
(* in leg order, that raised; daily_pnl and last_execution stay as they    *)
(* were, and the order of a leg that returned stays placed.                *)
(***************************************************************************)
C23_LegOutcome ==
    [][(executing # None /\ executing' = None) =>
          LET call == executing[1]
          IN  /\ Recorded
              /\ NewRecord.opportunity = call.opportunity
              /\ SubSeq(orders', 1, Len(orders)) = orders
              /\ NewRecord.success <=> RaisedLegs = {}
              /\ NewRecord.success =>
                    /\ executor'.daily_pnl = executor.daily_pnl
                          + call.opportunity.profit * call.position_size
                    /\ executor'.last_execution = Some(0)
                    /\ NewRecord.pnl = call.opportunity.profit * call.position_size
                    /\ NewRecord.error = ""
                    /\ Placed = Legs(call)
              /\ ~NewRecord.success =>
                    /\ executor'.daily_pnl = executor.daily_pnl
                    /\ executor'.last_execution = executor.last_execution
                    /\ \E i \in RaisedLegs :
                          /\ \A j \in RaisedLegs : i <= j
                          /\ NewRecord.error = LegError(Legs(call)[i])
                    /\ Placed = SeqFilter(Legs(call),
                                          {Legs(call)[i] : i \in (1..2) \ RaisedLegs})]_vars

\* both legs of a call raised after an earlier call had succeeded: the record
\* carries the first leg's error and the earlier orders are all there are
C23_Witness ==
    /\ Len(executor.execution_log) = 2
    /\ executor.execution_log[1].success
    /\ ~executor.execution_log[2].success
    /\ executor.execution_log[2].error
          \in {"kalshi order failed", "polymarket order failed"}
    /\ Len(orders) = 2
    /\ executor.last_execution # None
    /\ executor.daily_pnl = executor.execution_log[1].pnl

(***************************************************************************)
(* The scanner.  _run_loop is followed from one suspension to the next:    *)
(* every action below is what the event loop runs between two awaits of    *)
(* one coroutine (or what the matcher's worker thread does).  Sleeps and   *)
(* the inter-tick wait carry their length in seconds; when they end is up  *)
(* to the clock (BackoffElapsed, WaitTimeout).                             *)
(***************************************************************************)
\* the number of tasks start() may spawn
MaxTasks == 2

\* the number of ticks explored when the loop runs on its own
MaxTicks == 22

\* max_backoff of _run_loop, in seconds
MaxBackoff == 60

\* the number of entries stats.errors keeps
ErrorsKept == 20

Subscribers == {"s1", "s2"}

TickPcs == {"fetch", "match", "enrich", "broadcast", "execute"}

Live(t) == t.pc \notin {"none", "done"}

\* what the venues list at a fetch
ScanKLists == { <<[id |-> "K1", title |-> TitleABC]>> }

ScanPLists == { <<[id |-> "P1", title |-> TitleBAC]>>, <<[id |-> "P2", title |-> TitleABCD]>> }

\* the primary outcome a venue's payload gave the Market object m when it was
\* fetched, with the asks and depths of the order book if one was read
Quoted(yes_price, no_price, books) ==
    IF books THEN Outcome(yes_price, no_price, yes_price + 10, no_price + 10, 100000, 100000)
    ELSE Outcome(yes_price, no_price, 0, 0, 0, 0)

KalshiQuote(m, books) ==
    IF m.id = "K1" /\ m.gen = 1 THEN Quoted(400, 600, books) ELSE Quoted(500, 500, books)

PolyQuote(m, books) ==
    IF m.id = "P1" THEN Quoted(500, 500, books) ELSE Quoted(300, 700, books)

\* the Market objects _enrich_orderbooks reads an order book for
BookReads(mms) == {mms[i].k : i \in DOMAIN mms} \cup {mms[i].p : i \in DOMAIN mms}

\* the reads that fail in one _enrich_orderbooks: none, one, or all of them
ReadFailures(mms) == {{}, BookReads(mms)} \cup {{m} : m \in BookReads(mms)}

\* the matched markets as detect_opportunities reads them after
\* _enrich_orderbooks re-linked each pair to its Market objects' outcomes;
\* read holds the Market objects an order book was ever written into
ScanViews(mms, read) ==
    [i \in DOMAIN mms |->
        [mm |-> mms[i], ko |-> KalshiQuote(mms[i].k, mms[i].k \in read),
         po |-> PolyQuote(mms[i].p, mms[i].p \in read)]]

\* the data dict of _broadcast
Snapshot(opps, st) ==
    [type |-> "scan_update", opportunities |-> opps,
     stats |-> [kalshi_markets |-> st.kalshi_markets,
                polymarket_markets |-> st.polymarket_markets,
                matched_pairs |-> st.matched_pairs,
                active_opportunities |-> st.active_opportunities,
                total_scans |-> st.total_scans, last_scan |-> st.last_scan]]

\* a list that is never cut
KeepAll(q, n) == q

\* q[-n:]
LastN(q, n) == IF Len(q) <= n THEN q ELSE SubSeq(q, Len(q) - n + 1, Len(q))

\* stats.errors after the except branch of _run_loop logged a failed tick
Logged(errors, tick) == LastN(Append(errors, [tick |-> tick, error |-> "Scan error"]), ErrorsKept)

\* a loop that gives up on a failed tick
FailedStops(t) == [t EXCEPT !.pc = "done", !.bc = NoFrame]

\* _run_loop after a tick raised: it sleeps for backoff seconds
Failed(t) ==
    [t EXCEPT !.pc = "backoff", !.sleep = t.backoff, !.streak = @ + 1, !.bc = NoFrame]

\* a loop that keeps its backoff after a tick returned
WaitingKeepsBackoff(t) == [t EXCEPT !.pc = "wait", !.streak = 0, !.bc = NoFrame]

\* _run_loop after a tick returned: backoff = 1.0 and the inter-tick wait
Waiting(t) == [t EXCEPT !.pc = "wait", !.backoff = 1, !.streak = 0, !.bc = NoFrame]

\* a stop() that leaves the task alone
NotCancelled(t) == t

\* task.cancel()
Cancel(t) == [t EXCEPT !.cancel = TRUE]

\* list.remove(cb) for each dead callback in turn: the list left, and
\* whether a remove raised ValueError (the callback was no longer in it)
RemoveFirst(ws, cb) ==
    LET k == CHOOSE i \in DOMAIN ws : ws[i] = cb /\ \A j \in 1..(i - 1) : ws[j] # cb
    IN  SubSeq(ws, 1, k - 1) \o SubSeq(ws, k + 1, Len(ws))

RECURSIVE RemoveDead(_, _)
RemoveDead(ws, dead) ==
    IF dead = <<>> THEN [ws |-> ws, raised |-> FALSE]
    ELSE IF Head(dead) \notin Range(ws) THEN [ws |-> ws, raised |-> TRUE]
    ELSE RemoveDead(RemoveFirst(ws, Head(dead)), Tail(dead))

\* an end of _scan_once that executes the last opportunity of the list
AutoExecuteLast(t, ex, opps) ==
    IF ex.enabled /\ opps # <<>>
    THEN LET r == ExecuteStart(ex, opps[Len(opps)], today)
         IN  [task |-> IF r.executing = None THEN Waiting(t) ELSE [t EXCEPT !.pc = "execute", !.bc = NoFrame],
              executor |-> r.executor, executing |-> r.executing]
    ELSE [task |-> Waiting(t), executor |-> ex, executing |-> None]

\* the end of _scan_once, after _broadcast returned: execute the best
\* opportunity if auto-execution is on
AutoExecute(t, ex, opps) ==
    IF ex.enabled /\ opps # <<>>
    THEN LET r == ExecuteStart(ex, opps[1], today)
         IN  [task |-> IF r.executing = None THEN Waiting(t) ELSE [t EXCEPT !.pc = "execute", !.bc = NoFrame],
              executor |-> r.executor, executing |-> r.executing]
    ELSE [task |-> Waiting(t), executor |-> ex, executing |-> None]

\* await client.close() of stop(), from the second client on
CloseKalshi(st, h) ==
    IF h.kalshi = "open"
    THEN [stopper |-> [st EXCEPT !.pc = "closing_kalshi"], http |-> [h EXCEPT !.kalshi = "closed"]]
    ELSE [stopper |-> [st EXCEPT !.pc = "returned"], http |-> h]

ClosePolymarket(st, h) ==
    IF h.polymarket = "open"
    THEN [stopper |-> [st EXCEPT !.pc = "closing_polymarket"],
          http |-> [h EXCEPT !.polymarket = "closed"]]
    ELSE CloseKalshi(st, h)

neverVars ==
    <<excluded, overrides, kalshi_fee_rate, polymarket_fee_rate, views, lastDetect,
      clientVars, enrichVars, rate>>

settingVars ==
    <<threshold, min_profit_cents, scan_interval_seconds, match_similarity_threshold,
      auto_execute, max_position_size_usd, today>>

publishedVars == <<kalshi_markets, polymarket_markets, matched_markets, opportunities>>

\* start()
Start ==
    /\ IF Live(task)
       THEN UNCHANGED <<task, stop_event, stats, stopper>>
       ELSE /\ task.id < MaxTasks
            /\ stop_event' = FALSE
            /\ task' = NewTask(task.id + 1)
            /\ stats' = [stats EXCEPT !.is_running = TRUE]
            /\ stopper' = [stopper EXCEPT !.restarted = (stopper.pc # "idle")]
    /\ UNCHANGED <<neverVars, settingVars, publishedVars, executorVars, cache, gen,
                   lastMatch, http, ws_broadcast, workers, callbacks, bcast>>

\* stop(), up to its first await
StopBegin ==
    /\ stopper.pc \in {"idle", "returned"}
    /\ stop_event' = TRUE
    /\ LET st == [pc |-> "await_task", task |-> task.id, began_in |-> task.pc,
                  restarted |-> FALSE, timer_fired |-> FALSE]
       IN  IF Live(task)
           THEN /\ task' = Cancel(task)
                /\ stopper' = st
                /\ UNCHANGED <<stats, http>>
           ELSE LET r == ClosePolymarket(st, http)
                IN  /\ stats' = [stats EXCEPT !.is_running = FALSE]
                    /\ stopper' = r.stopper
                    /\ http' = r.http
                    /\ UNCHANGED task
    /\ UNCHANGED <<neverVars, settingVars, publishedVars, executorVars, cache, gen,
                   lastMatch, ws_broadcast, workers, callbacks, bcast>>

\* stop() resumes from await self._task
StopTaskDone ==
    /\ stopper.pc = "await_task"
    /\ task.id # stopper.task \/ task.pc = "done"
    /\ LET r == ClosePolymarket(stopper, http)
       IN  /\ stats' = [stats EXCEPT !.is_running = FALSE]
           /\ stopper' = r.stopper
           /\ http' = r.http
    /\ UNCHANGED <<neverVars, settingVars, publishedVars, executorVars, cache, gen,
                   lastMatch, task, stop_event, ws_broadcast, workers, callbacks, bcast>>

\* stop() resumes from await self.poly_client.close()
StopPolymarketClosed ==
    /\ stopper.pc = "closing_polymarket"
    /\ LET r == CloseKalshi(stopper, http)
       IN  stopper' = r.stopper /\ http' = r.http
    /\ UNCHANGED <<neverVars, settingVars, publishedVars, executorVars, cache, gen,
                   lastMatch, task, stop_event, stats, ws_broadcast, workers,
                   callbacks, bcast>>

\* stop() resumes from await self.kalshi_client.close() and returns
StopKalshiClosed ==
    /\ stopper.pc = "closing_kalshi"
    /\ stopper' = [stopper EXCEPT !.pc = "returned"]
    /\ UNCHANGED <<neverVars, settingVars, publishedVars, executorVars, cache, gen,
                   lastMatch, task, stop_event, http, stats, ws_broadcast, workers,
                   callbacks, bcast>>

\* the while test of _run_loop and, if it passes, _scan_once up to its
\* await of the two fetches (which open the clients)
LoopTop(t, waited, ticks) ==
    IF stop_event
    THEN /\ task' = [t EXCEPT !.pc = "done"]
         /\ UNCHANGED <<gen, http>>
    ELSE /\ gen < ticks
         /\ gen' = gen + 1
         /\ task' = [t EXCEPT !.pc = "fetch", !.tick = gen + 1, !.waited = waited,
                              !.sleep = 0]
         /\ http' = [kalshi |-> "open", polymarket |-> "open"]

\* a sleep or the inter-tick wait of task t ended: a stop() call waiting
\* for t has waited it out
TimerFired(st, t) ==
    IF st.pc = "await_task" /\ st.task = t.id THEN [st EXCEPT !.timer_fired = TRUE]
    ELSE st

\* the first step of the task
TaskFirstStep(ticks) ==
    /\ task.pc = "created" /\ ~task.cancel
    /\ LoopTop(task, [kind |-> "none", seconds |-> 0], ticks)
    /\ UNCHANGED <<neverVars, settingVars, publishedVars, executorVars, cache,
                   lastMatch, stop_event, stats, ws_broadcast, workers, stopper,
                   callbacks, bcast>>

\* a loop that handles the cancellation as it handles a failed tick
TaskCancelledLogged ==
    /\ Live(task) /\ task.cancel
    /\ task' = [Failed(task) EXCEPT !.cancel = FALSE]
    /\ stats' = [stats EXCEPT !.errors = Logged(@, task.tick)]
    /\ executing' = None
    /\ UNCHANGED <<neverVars, settingVars, publishedVars, executor, orders, cache, gen,
                   lastMatch, stop_event, http, ws_broadcast, workers, stopper,
                   callbacks, bcast>>

\* the pending cancellation reaches the task at the await it is suspended on
\* (a worker thread already running is not interrupted; the leg orders of an
\* execute under way may or may not have gone out)
TaskCancelled ==
    /\ Live(task) /\ task.cancel
    /\ task' = [task EXCEPT !.pc = "done", !.cancel = FALSE, !.bc = NoFrame]
    /\ executing' = None
    /\ IF executing # None
       THEN \E placed \in BOOLEAN :
               orders' = IF placed THEN orders \o Legs(executing[1]) ELSE orders
       ELSE orders' = orders
    /\ UNCHANGED <<neverVars, settingVars, publishedVars, executor, cache, gen,
                   lastMatch, stop_event, http, stats, ws_broadcast, workers, stopper,
                   callbacks, bcast>>

\* both fetches returned, with one of the lists klists and one of plists:
\* the lists are published and match() is handed to a worker thread
FetchDone(klists, plists) ==
    /\ task.pc = "fetch" /\ ~task.cancel
    /\ \E kl \in klists, pl \in plists :
          LET K == [i \in DOMAIN kl |-> Market(kl[i], task.tick)]
              P == [i \in DOMAIN pl |-> Market(pl[i], task.tick)]
          IN  /\ kalshi_markets' = K
              /\ polymarket_markets' = P
              /\ stats' = [stats EXCEPT !.kalshi_markets = Len(K),
                                        !.polymarket_markets = Len(P)]
              /\ workers' = workers \cup {[task |-> task.id, tick |-> task.tick,
                                           K |-> K, P |-> P, threshold |-> threshold,
                                           pending |-> None]}
    /\ task' = [task EXCEPT !.pc = "match"]
    /\ UNCHANGED <<neverVars, settingVars, executorVars, cache, gen, lastMatch,
                   matched_markets, opportunities, stop_event, http, ws_broadcast,
                   stopper, callbacks, bcast>>

\* a fetch raised (a payload that does not parse): the tick fails
FetchFails ==
    /\ task.pc = "fetch" /\ ~task.cancel
    /\ task' = Failed(task)
    /\ stats' = [stats EXCEPT !.errors = Logged(@, task.tick)]
    /\ UNCHANGED <<neverVars, settingVars, publishedVars, executorVars, cache, gen,
                   lastMatch, stop_event, http, ws_broadcast, workers, stopper,
                   callbacks, bcast>>

\* the cache entries a match() that computed the cache after from the cache
\* before has to store
CacheWrites(before, after) ==
    [k \in {k \in DOMAIN after : k \notin DOMAIN before \/ before[k] # after[k]} |->
        after[k]]

\* a worker thread has read the cache and the threshold and scored its
\* markets, and is preempted before it stores into the cache (the event
\* loop thread runs meanwhile)
WorkerScores ==
    \E w \in workers :
        /\ w.pending = None
        /\ LET r == MatchResult(cache, overrides, excluded, threshold, w.K, w.P)
           IN  workers' = (workers \ {w}) \cup
                   {[w EXCEPT !.pending =
                        Some([matched |-> r.matched,
                              writes  |-> CacheWrites(cache, r.cache)])]}
        /\ UNCHANGED <<neverVars, settingVars, publishedVars, executorVars, cache, gen,
                       lastMatch, task, stop_event, http, stats, ws_broadcast,
                       stopper, callbacks, bcast>>

\* match() on a worker thread from where the thread stands to its end: the
\* whole call if the thread was not preempted, else the stores it had left
WorkerMatch(w) ==
    IF w.pending = None THEN DoMatch(w.K, w.P)
    ELSE /\ cache' = w.pending[1].writes @@ cache
         /\ lastMatch' = [K |-> w.K, P |-> w.P, matched |-> w.pending[1].matched]

\* a worker thread runs match() to its end; the task that awaits it, if it
\* still does, resumes with the result
WorkerFinish ==
    \E w \in workers :
        /\ workers' = workers \ {w}
        /\ WorkerMatch(w)
        /\ IF task.id = w.task /\ task.pc = "match" /\ ~task.cancel
           THEN /\ matched_markets' = lastMatch'.matched
                /\ stats' = [stats EXCEPT !.matched_pairs = Len(lastMatch'.matched)]
                /\ task' = [task EXCEPT !.pc = "enrich"]
           ELSE UNCHANGED <<matched_markets, stats, task>>
        /\ UNCHANGED <<neverVars, settingVars, executorVars, gen, kalshi_markets,
                       polymarket_markets, opportunities, stop_event, http,
                       ws_broadcast, stopper, callbacks, bcast>>

\* _enrich_orderbooks returned: detection, the statistics, and _broadcast up
\* to its first await (or, with no subscriber, the rest of the tick)
EnrichDone ==
    /\ task.pc = "enrich" /\ ~task.cancel
    /\ \E failed \in ReadFailures(matched_markets),
          ties \in [DOMAIN matched_markets -> Ties] :
          LET read == enriched \cup (BookReads(matched_markets) \ failed)
              vs   == ScanViews(matched_markets, read)
              opps == DetectOpportunities(vs, min_profit_cents, kalshi_fee_rate,
                                          polymarket_fee_rate, ties)
              st   == [stats EXCEPT !.active_opportunities = Len(opps),
                                    !.total_scans = @ + 1, !.last_scan = task.tick]
              b    == [NoBroadcast EXCEPT !.tick = task.tick,
                                          !.at_publish = ws_broadcast,
                                          !.data = Snapshot(opps, st)]
          IN  /\ enriched' = read
              /\ lastEnrich' = [tick |-> task.tick, failed |-> failed, views |-> vs]
              /\ opportunities' = opps
              /\ stats' = st
              /\ IF ws_broadcast = <<>>
                 THEN LET r == AutoExecute(task, executor, opps)
                      IN  /\ task' = r.task
                          /\ executor' = r.executor
                          /\ executing' = r.executing
                          /\ bcast' = [b EXCEPT !.finished = TRUE]
                 ELSE /\ task' = [task EXCEPT !.pc = "broadcast",
                                     !.bc = [list |-> ws_broadcast, aliased |-> TRUE,
                                             i |-> 1, dead |-> <<>>]]
                      /\ bcast' = b
                      /\ UNCHANGED <<executor, executing>>
    /\ UNCHANGED <<excluded, overrides, kalshi_fee_rate, polymarket_fee_rate, views,
                   lastDetect, clientVars, rate, settingVars, cache, gen, lastMatch,
                   kalshi_markets, polymarket_markets, matched_markets, orders,
                   stop_event, http, ws_broadcast, workers, stopper, callbacks>>

\* the callback being awaited returns or raises; after the last one the dead
\* callbacks are removed and the tick goes on
BroadcastStep ==
    /\ task.pc = "broadcast" /\ ~task.cancel
    /\ \E throws \in BOOLEAN :
          LET f    == task.bc
              cb   == f.list[f.i]
              dead == IF throws THEN Append(f.dead, cb) ELSE f.dead
              b    == [bcast EXCEPT !.sent = Append(@, [cb |-> cb, data |-> bcast.data]),
                                    !.threw = IF throws THEN @ \cup {cb} ELSE @]
          IN  IF f.i < Len(f.list)
              THEN /\ task' = [task EXCEPT !.bc = [f EXCEPT !.i = @ + 1, !.dead = dead]]
                   /\ bcast' = b
                   /\ UNCHANGED <<ws_broadcast, executor, executing, stats>>
              ELSE LET rem == RemoveDead(ws_broadcast, dead)
                   IN  /\ ws_broadcast' = rem.ws
                       /\ bcast' = [b EXCEPT !.finished = TRUE, !.after = rem.ws]
                       /\ IF rem.raised
                          THEN /\ task' = Failed(task)
                               /\ stats' = [stats EXCEPT !.errors = Logged(@, task.tick)]
                               /\ UNCHANGED <<executor, executing>>
                          ELSE LET r == AutoExecute(task, executor, opportunities)
                               IN  /\ task' = r.task
                                   /\ executor' = r.executor
                                   /\ executing' = r.executing
                                   /\ UNCHANGED stats
    /\ UNCHANGED <<neverVars, settingVars, publishedVars, cache, gen, lastMatch,
                   orders, stop_event, http, workers, stopper, callbacks>>

\* both legs of the tick's execute returned
TickExecuteDone ==
    /\ task.pc = "execute" /\ ~task.cancel
    /\ orders' = orders \o Legs(executing[1])
    /\ executor' = ExecuteFinish(executor, executing[1])
    /\ executing' = None
    /\ task' = Waiting(task)
    /\ UNCHANGED <<neverVars, settingVars, publishedVars, cache, gen, lastMatch,
                   stop_event, http, stats, ws_broadcast, workers, stopper,
                   callbacks, bcast>>

\* the inter-tick wait timed out: the next tick begins
WaitTimeout(ticks) ==
    /\ task.pc = "wait" /\ ~task.cancel
    /\ LoopTop(task, [kind |-> "interval", seconds |-> scan_interval_seconds], ticks)
    /\ stopper' = TimerFired(stopper, task)
    /\ UNCHANGED <<neverVars, settingVars, publishedVars, executorVars, cache,
                   lastMatch, stop_event, stats, ws_broadcast, workers, callbacks,
                   bcast>>

\* the backoff sleep ended: backoff doubles and the next tick begins
BackoffElapsed(ticks) ==
    /\ task.pc = "backoff" /\ ~task.cancel
    /\ LoopTop([task EXCEPT !.backoff = Min(@ * 2, MaxBackoff)],
               [kind |-> "backoff", seconds |-> task.sleep], ticks)
    /\ stopper' = TimerFired(stopper, task)
    /\ UNCHANGED <<neverVars, settingVars, publishedVars, executorVars, cache,
                   lastMatch, stop_event, stats, ws_broadcast, workers, callbacks,
                   bcast>>

\* register_ws_callback(cb), cb a callback created for a new connection
Register ==
    \E cb \in Subscribers \ callbacks :
        /\ callbacks' = callbacks \cup {cb}
        /\ ws_broadcast' = Append(ws_broadcast, cb)
        /\ task' = IF task.pc = "broadcast" /\ task.bc.aliased
                   THEN [task EXCEPT !.bc.list = Append(@, cb)]
                   ELSE task
        /\ UNCHANGED <<neverVars, settingVars, publishedVars, executorVars, cache, gen,
                       lastMatch, stop_event, http, stats, workers, stopper, bcast>>

\* unregister_ws_callback(cb): _ws_broadcast becomes a new list without cb
Unregister ==
    \E cb \in Range(ws_broadcast) :
        /\ ws_broadcast' = SeqFilter(ws_broadcast, Range(ws_broadcast) \ {cb})
        /\ task' = IF task.pc = "broadcast" THEN [task EXCEPT !.bc.aliased = FALSE]
                   ELSE task
        /\ bcast' = IF task.pc = "broadcast"
                    THEN [bcast EXCEPT !.unregistered = @ \cup {cb}]
                    ELSE bcast
        /\ UNCHANGED <<neverVars, settingVars, publishedVars, executorVars, cache, gen,
                       lastMatch, stop_event, http, stats, workers, stopper, callbacks>>

ScanUpdateSettings ==
    \E enable \in {Some(TRUE)} :
        /\ ~executor.enabled
        /\ UpdateSettings(None, None, None, enable, None)

\* the arguments update_settings is called with: scan_interval,
\* min_profit_cents, match_threshold, auto_execute, max_position_usd, not all
\* None
SettingsArgs ==
    ({None, Some(30)} \X {None, Some(7000)} \X {None, Some(RaisedThreshold)}
        \X {None, Some(TRUE)} \X {None, Some(100)}) \ {<<None, None, None, None, None>>}

\* update_settings(...) called with any of these arguments
AnyUpdateSettings ==
    \E a \in SettingsArgs : UpdateSettings(a[1], a[2], a[3], a[4], a[5])

ScanInit == MatcherIdle /\ DetectorIdle /\ ExecutorIdle /\ ScannerIdle

ScanNext ==
    \/ Start
    \/ StopBegin
    \/ StopTaskDone
    \/ StopPolymarketClosed
    \/ StopKalshiClosed
    \/ TaskFirstStep(MaxGen)
    \/ TaskCancelled
    \/ FetchDone(ScanKLists, ScanPLists)
    \/ FetchFails
    \/ WorkerFinish
    \/ EnrichDone
    \/ TickExecuteDone
    \/ WaitTimeout(MaxGen)
    \/ BackoffElapsed(MaxGen)
    \/ ScanUpdateSettings

\* the scanner started, stopped and reconfigured at any moment, with no
\* subscriber
SpecScan == ScanInit /\ [][ScanNext]_vars

BroadcastNext ==
    \/ Start
    \/ TaskFirstStep(MaxGen)
    \/ FetchDone(ScanKLists, ScanPLists)
    \/ FetchFails
    \/ WorkerFinish
    \/ EnrichDone
    \/ BroadcastStep
    \/ WaitTimeout(MaxGen)
    \/ BackoffElapsed(MaxGen)
    \/ Register
    \/ Unregister

\* the scanner started once and left running, with subscribers coming and
\* going at any moment
SpecBroadcast == ScanInit /\ [][BroadcastNext]_vars

SettingsNext ==
    \/ Start
    \/ TaskFirstStep(MaxGen)
    \/ FetchDone(ScanKLists, ScanPLists)
    \/ WorkerScores
    \/ WorkerFinish
    \/ EnrichDone
    \/ TickExecuteDone
    \/ WaitTimeout(MaxGen)
    \/ AnyUpdateSettings

\* the scanner started once and left running while update_settings is called
\* at any moment, the matcher's worker thread being preempted or not
SpecSettings == ScanInit /\ [][SettingsNext]_vars

LoopNext ==
    \/ Start
    \/ TaskFirstStep(MaxTicks)
    \/ FetchFails
    \/ (stats.total_scans < MaxGen /\ FetchDone(ScanKLists, ScanPLists)
          /\ polymarket_markets'[1].id = "P2")
    \/ WorkerFinish
    \/ EnrichDone
    \/ WaitTimeout(MaxTicks)
    \/ BackoffElapsed(MaxTicks)

\* the scanner started once and left running for MaxTicks ticks, of which at
\* most MaxGen get their fetches through (venue P then lists P2) and the
\* others fail
SpecLoop == ScanInit /\ [][LoopNext]_vars

\* what the venues list at a fetch when each lists two markets, or venue P
\* none
TickKLists ==
    { <<[id |-> "K1", title |-> TitleABC], [id |-> "K2", title |-> TitleABCD]>> }

TickPLists ==
    { <<[id |-> "P1", title |-> TitleBAC], [id |-> "P2", title |-> TitleABCD]>>, <<>> }

\* update_settings(auto_execute = enable) with the value it does not have
ToggleAutoExecute ==
    \E enable \in BOOLEAN :
        /\ executor.enabled # enable
        /\ UpdateSettings(None, None, None, Some(enable), None)

TickNext ==
    \/ Start
    \/ TaskFirstStep(MaxGen)
    \/ FetchDone(TickKLists, TickPLists)
    \/ FetchFails
    \/ WorkerFinish
    \/ EnrichDone
    \/ BroadcastStep
    \/ TickExecuteDone
    \/ WaitTimeout(MaxGen)
    \/ BackoffElapsed(MaxGen)
    \/ Register
    \/ ToggleAutoExecute

\* the scanner started once and left running, with subscribers arriving and
\* auto-execution switched on and off at any moment
SpecTick == ScanInit /\ [][TickNext]_vars

\* the subscriber whose send may take arbitrarily long, or never complete
SlowSubscriber == "s1"

\* the callback being awaited is not the slow subscriber's and returns or
\* raises
BroadcastStepPrompt ==
    /\ task.pc = "broadcast"
    /\ task.bc.list[task.bc.i] # SlowSubscriber
    /\ BroadcastStep

SlowNext ==
    \/ Start
    \/ TaskFirstStep(MaxGen)
    \/ FetchDone(ScanKLists, ScanPLists)
    \/ WorkerFinish
    \/ EnrichDone
    \/ BroadcastStep
    \/ TickExecuteDone
    \/ WaitTimeout(MaxGen)
    \/ Register
    \/ ScanUpdateSettings

\* the scanner started once and left running with subscribers: the event
\* loop runs what is ready, the venues answer, the worker thread runs, the
\* inter-tick wait times out and every send completes except, possibly,
\* those to the slow subscriber
SpecSlow ==
    /\ ScanInit
    /\ [][SlowNext]_vars
    /\ WF_vars(TaskFirstStep(MaxGen))
    /\ WF_vars(FetchDone(ScanKLists, ScanPLists))
    /\ WF_vars(WorkerFinish)
    /\ WF_vars(EnrichDone)
    /\ WF_vars(BroadcastStepPrompt)
    /\ WF_vars(TickExecuteDone)
    /\ WF_vars(WaitTimeout(MaxGen))

\* the event loop runs what is ready and its clock advances: a backoff sleep
\* that is not cancelled ends
SpecScanFair == ScanInit /\ [][ScanNext]_vars /\ WF_vars(BackoffElapsed(MaxGen))

(***************************************************************************)
(* C5.  An exception raised inside a tick (other than a cancellation) does *)
(* not end the loop: one entry is appended to stats.errors, and unless     *)
(* stop() is called another tick eventually starts, after the backoff      *)
(* sleep alone (1 s for the first failure after a successful tick) and     *)
(* without the inter-tick wait.                                            *)
(***************************************************************************)
C5_LoopSurvivesFailure ==
    /\ [][FetchFails =>
            /\ task'.id = task.id
            /\ task'.pc = "backoff"
            /\ (task.streak = 0 => task'.sleep = 1)
            /\ Len(stats'.errors) = Len(stats.errors) + 1
            /\ SubSeq(stats'.errors, 1, Len(stats.errors)) = stats.errors]_vars
    /\ [][(task.pc = "backoff" /\ task'.pc # "backoff") =>
            \/ /\ task'.id = task.id
               /\ task'.pc = "fetch"
               /\ task'.waited = [kind |-> "backoff", seconds |-> task.sleep]
            \/ task.cancel /\ task'.pc = "done"]_vars
    /\ (task.pc = "backoff" /\ ~task.cancel /\ gen < MaxGen)
          ~> (task.pc = "fetch" \/ task.cancel)

\* a tick is under way that began 1 s after the tick before it failed
C5_Witness ==
    /\ task.pc = "fetch"
    /\ task.streak = 1
    /\ task.waited = [kind |-> "backoff", seconds |-> 1]
    /\ Len(stats.errors) = 1

(***************************************************************************)
(* C7.  start() on a live task spawns no second task (Start leaves the     *)
(* task as it is), and under any interleaving of start() and stop() at     *)
(* most one scan tick, its matcher worker included, is running.            *)
(***************************************************************************)
RunningTicks ==
    (IF task.pc \in TickPcs THEN {task.tick} ELSE {}) \cup {w.tick : w \in workers}

C7_AtMostOneTick == Cardinality(RunningTicks) <= 1

(***************************************************************************)
(* C8.  After stop() returns, and until start() is called again, the tick  *)
(* task has terminated (so no new tick starts), stats.is_running is false  *)
(* and neither venue client is open; a stop() that found the loop in its   *)
(* inter-tick wait or in a backoff sleep returns without that wait or      *)
(* sleep having run out.                                                   *)
(***************************************************************************)
C8_StopStops ==
    /\ stopper.pc = "returned" => (task.id # stopper.task \/ ~Live(task))
    /\ (stopper.pc = "returned" /\ ~stopper.restarted) =>
          /\ ~Live(task)
          /\ ~stats.is_running
          /\ http.kalshi # "open"
          /\ http.polymarket # "open"
    /\ (stopper.pc \in {"closing_polymarket", "closing_kalshi", "returned"}
          /\ stopper.began_in \in {"wait", "backoff"}) => ~stopper.timer_fired

\* a stop() that found the loop in a backoff sleep has returned, and both
\* clients the tick had opened are closed
C8_Witness ==
    /\ stopper.pc = "returned"
    /\ stopper.began_in = "backoff"
    /\ ~stopper.restarted
    /\ http = [kalshi |-> "closed", polymarket |-> "closed"]

(***************************************************************************)
(* C10.  After each successful tick every MatchedPair in                   *)
(* scanner.matched_markets, and every Opportunity built on one, refers to  *)
(* the K and P Market objects fetched in that tick.                        *)
(***************************************************************************)
FromTick(mm, tick) == mm.k.gen = tick /\ mm.p.gen = tick

C10_ScanScoped ==
    task.pc = "wait" =>
        /\ \A i \in DOMAIN matched_markets : FromTick(matched_markets[i], task.tick)
        /\ \A i \in DOMAIN opportunities : FromTick(opportunities[i].mm, task.tick)

(***************************************************************************)
(* C6.  On each successful tick every subscriber registered at publish     *)
(* time is invoked exactly once with the snapshot of that tick's           *)
(* opportunities and stats; a subscriber whose callback throws is removed  *)
(* from the registry; the others still receive the snapshot and stay       *)
(* registered.                                                             *)
(***************************************************************************)
C6_EachInvokedOnce ==
    bcast.finished =>
        /\ \A cb \in Range(bcast.at_publish) :
              Cardinality({i \in DOMAIN bcast.sent : bcast.sent[i].cb = cb}) = 1
        /\ \A i \in DOMAIN bcast.sent : bcast.sent[i].data = bcast.data
        /\ bcast.data.opportunities = opportunities
        /\ bcast.data.stats.total_scans = stats.total_scans
        /\ bcast.data.stats.last_scan = bcast.tick

C6_OthersStay ==
    bcast.finished =>
        \A cb \in Range(bcast.at_publish) \ (bcast.threw \cup bcast.unregistered) :
            cb \in Range(bcast.after)

C6_Broadcast ==
    /\ C6_EachInvokedOnce
    /\ C6_OthersStay
    /\ bcast.finished => \A cb \in bcast.threw : cb \notin Range(bcast.after)

(***************************************************************************)
(* C15.  A threshold change clears the cache: update_settings(match_       *)
(* threshold = t) leaves the cache empty, and a match() that starts after  *)
(* it reuses no pair scored under the previous threshold: under a          *)
(* threshold that was only raised, every pair such a call returns scores   *)
(* at least the threshold.                                                 *)
(***************************************************************************)
C15_ClearedOnChange == [][threshold' # threshold => cache' = EmptyCache]_vars

C15_ThresholdClearsCache ==
    /\ C15_ClearedOnChange
    /\ [][\A w \in workers :
            (workers' = workers \ {w} /\ w.threshold = threshold) =>
                \A n \in DOMAIN lastMatch'.matched :
                    lastMatch'.matched[n].score >= threshold]_vars

(***************************************************************************)
(* C22.  Every call of execute() appends exactly one record for its        *)
(* opportunity: a call that got past the guardrails and then ends leaves a *)
(* record for that opportunity at the end of the log, and the log changes  *)
(* only by one record appended at its end.                                 *)
(***************************************************************************)
C22_OneRecordPerCall ==
    /\ [][(executing # None /\ executing' = None) =>
            /\ Recorded
            /\ NewRecord.opportunity = executing[1].opportunity]_vars
    /\ [][executor'.execution_log # executor.execution_log =>
            /\ Recorded
            /\ SubSeq(executor'.execution_log, 1, Len(executor.execution_log))
                  = executor.execution_log]_vars

(***************************************************************************)
(* C24.  After the k-th consecutive failed tick the loop sleeps            *)
(* min(2^(k-1), 60) seconds: 1, 2, 4, 8, 16, 32, then 60 for every further *)
(* failure; a tick that returns puts the backoff back to 1 second, so the  *)
(* first failure after it sleeps 1 second again.                           *)
(***************************************************************************)
C24_Backoff ==
    /\ task.pc = "backoff" =>
          /\ task.streak >= 1
          /\ task.sleep = IF task.streak >= 7 THEN 60 ELSE 2 ^ (task.streak - 1)
    /\ task.pc = "wait" => task.backoff = 1 /\ task.streak = 0

\* after a tick that returned, eight ticks in a row failed: the loop sleeps
\* 60 seconds
C24_Witness ==
    /\ task.pc = "backoff"
    /\ stats.total_scans = 1
    /\ task.streak = 8
    /\ task.sleep = 60

\* this step is a tick failing
TickFailed == task'.pc = "backoff" /\ task.pc # "backoff"

(***************************************************************************)
(* C25.  stats.errors never holds more than 20 entries.  It changes only   *)
(* when a tick fails, and then the message of that tick goes to its end    *)
(* and, if it already held 20, its oldest entry goes: after more than 20   *)
(* failed ticks it is the messages of the 20 most recent failures, oldest  *)
(* first.                                                                  *)
(***************************************************************************)
C25_ErrorRing ==
    /\ [](Len(stats.errors) <= 20)
    /\ [](\A i, j \in DOMAIN stats.errors : i < j => stats.errors[i].tick < stats.errors[j].tick)
    /\ [][stats'.errors # stats.errors => TickFailed]_vars
    /\ [][TickFailed =>
            LET e == stats'.errors[Len(stats'.errors)]
            IN  /\ e.tick = task.tick
                /\ stats'.errors =
                      IF Len(stats.errors) < 20 THEN Append(stats.errors, e)
                      ELSE Append(Tail(stats.errors), e)]_vars

\* 22 ticks failed in a row: the ring holds the messages of ticks 3 to 22
C25_Witness ==
    /\ Len(stats.errors) = 20
    /\ stats.errors[1].tick = 3
    /\ stats.errors[20].tick = 22

(***************************************************************************)
(* C26.  update_settings sets every holder of each supplied field to the   *)
(* supplied value (scan_interval: settings and stats; min_profit_cents:    *)
(* settings and executor; match_threshold: settings and matcher;           *)
(* auto_execute: settings, executor and stats; max_position_usd: settings  *)
(* and executor), leaves the holders of every field that was not supplied  *)
(* as they were, and leaves the task, its tick, the matcher's workers and  *)
(* an execute under way untouched.                                         *)
(***************************************************************************)
C26_UpdateSettings ==
    [][\A a \in SettingsArgs :
          UpdateSettings(a[1], a[2], a[3], a[4], a[5]) =>
              /\ a[1] # None =>
                    scan_interval_seconds' = a[1][1] /\ stats'.scan_interval = a[1][1]
              /\ a[1] = None =>
                    /\ scan_interval_seconds' = scan_interval_seconds
                    /\ stats'.scan_interval = stats.scan_interval
              /\ a[2] # None =>
                    min_profit_cents' = a[2][1] /\ executor'.min_profit_cents = a[2][1]
              /\ a[2] = None =>
                    /\ min_profit_cents' = min_profit_cents
                    /\ executor'.min_profit_cents = executor.min_profit_cents
              /\ a[3] # None =>
                    match_similarity_threshold' = a[3][1] /\ threshold' = a[3][1]
              /\ a[3] = None =>
                    /\ match_similarity_threshold' = match_similarity_threshold
                    /\ threshold' = threshold
                    /\ cache' = cache
              /\ a[4] # None =>
                    /\ auto_execute' = a[4][1]
                    /\ executor'.enabled = a[4][1]
                    /\ stats'.auto_execute = a[4][1]
              /\ a[4] = None =>
                    /\ auto_execute' = auto_execute
                    /\ executor'.enabled = executor.enabled
                    /\ stats'.auto_execute = stats.auto_execute
              /\ a[5] # None =>
                    max_position_size_usd' = a[5][1] /\ executor'.max_position_usd = a[5][1]
              /\ a[5] = None =>
                    /\ max_position_size_usd' = max_position_size_usd
                    /\ executor'.max_position_usd = executor.max_position_usd
              /\ [executor' EXCEPT !.min_profit_cents = executor.min_profit_cents,
                                   !.enabled = executor.enabled,
                                   !.max_position_usd = executor.max_position_usd]
                    = executor
              /\ [stats' EXCEPT !.scan_interval = stats.scan_interval,
                                !.auto_execute = stats.auto_execute] = stats
              /\ UNCHANGED <<task, workers, executing, orders, stop_event, stopper, http,
                             gen, lastMatch, ws_broadcast, bcast, callbacks,
                             publishedVars, neverVars, today>>]_vars

\* update_settings(match_threshold = 90) ran while the matcher's worker of
\* the first tick was under way: it still is, the task still waits for it, and
\* the fields that were not supplied hold their defaults
C26_Witness ==
    /\ task.pc = "match"
    /\ \E w \in workers : w.tick = task.tick /\ w.threshold # threshold
    /\ threshold = RaisedThreshold
    /\ match_similarity_threshold = RaisedThreshold
    /\ scan_interval_seconds = DefaultScanInterval
    /\ stats.scan_interval = DefaultScanInterval
    /\ ~executor.enabled

(***************************************************************************)
(* The venue clients' GETs.  A status is the HTTP status of the response,  *)
(* or 0 when client.get raised (a network error); waits are in tenths of a *)
(* second.  get.seen lists the statuses received so far, get.waits the     *)
(* sleeps made after them.                                                 *)
(***************************************************************************)
Statuses == {0, 200, 404, 429, 500, 503}

\* the GETs the clients make
Endpoints ==
    {<<"kalshi", "/markets">>, <<"kalshi", "/events">>, <<"kalshi", "/orderbook">>,
     <<"polymarket", "/events">>, <<"polymarket", "/book">>}

\* raise_for_status returns
IsSuccess(status) == status >= 200 /\ status < 300

\* a wait that does not grow with the attempt
RetryWaitFlat(attempt) == 15

\* wait = 1.5 * (attempt + 1)
RetryWait(attempt) == 15 * (attempt + 1)

\* KalshiClient._get_with_retry after client.get returned a response with
\* this status, or raised
KalshiGot(g, status) ==
    LET h == [g EXCEPT !.seen = Append(@, status)]
    IN  IF status = 0 THEN [h EXCEPT !.pc = "raised"]
        ELSE IF status = 429
        THEN [h EXCEPT !.pc = "sleep", !.waits = Append(@, RetryWait(g.attempt))]
        ELSE IF IsSuccess(status) THEN [h EXCEPT !.pc = "returned"]
        ELSE [h EXCEPT !.pc = "raised"]

\* KalshiClient._get_with_retry after its sleep: the next attempt of
\* range(5), or raise_for_status on the last response
KalshiSlept(g) ==
    IF g.attempt + 1 < 5
    THEN [g EXCEPT !.attempt = @ + 1, !.requests = @ + 1, !.pc = "request"]
    ELSE [g EXCEPT !.pc = "raised"]

\* PolymarketClient.fetch_active_markets and fetch_orderbook after
\* client.get returned a response with this status, or raised: "raised" is
\* the except branch (the page is given up, the book is empty)
PolymarketGot(g, status) ==
    LET h == [g EXCEPT !.seen = Append(@, status)]
    IN  IF status = 0 THEN [h EXCEPT !.pc = "raised"]
        ELSE IF g.path = "/book" /\ status = 404 THEN [h EXCEPT !.pc = "returned"]
        ELSE IF IsSuccess(status) THEN [h EXCEPT !.pc = "returned"]
        ELSE [h EXCEPT !.pc = "raised"]

\* a client starts a GET
GetStart ==
    /\ get.pc \in {"idle", "returned", "raised"}
    /\ \E e \in Endpoints :
          get' = [NoGet EXCEPT !.client = e[1], !.path = e[2], !.pc = "request",
                               !.requests = 1]

\* the response arrives, or client.get raises
GetResponse ==
    /\ get.pc = "request"
    /\ \E status \in Statuses :
          get' = IF get.client = "kalshi" THEN KalshiGot(get, status)
                 ELSE PolymarketGot(get, status)

\* the sleep after a 429 ends
GetSleepDone ==
    /\ get.pc = "sleep"
    /\ get' = KalshiSlept(get)

RetryNext ==
    \/ GetStart /\ UNCHANGED <<matcherVars, detectorVars, executorVars, loopVars,
                              lastFetch, lastParse>>
    \/ GetResponse /\ UNCHANGED <<matcherVars, detectorVars, executorVars, loopVars,
                                 lastFetch, lastParse>>
    \/ GetSleepDone /\ UNCHANGED <<matcherVars, detectorVars, executorVars, loopVars,
                                  lastFetch, lastParse>>

\* the venue clients making one GET after another
SpecRetry == ScanInit /\ [][RetryNext]_vars

\* the first n statuses seen are all 429 and each was followed by a wait of
\* 1.5 * i seconds, i = 1..n
Retried(g, n) ==
    /\ \A i \in 1..n : g.seen[i] = 429
    /\ Len(g.waits) >= n
    /\ \A i \in 1..n : g.waits[i] = 15 * i

(***************************************************************************)
(* C27.  A venue-K GET makes at most 5 requests.  When it returns, it has  *)
(* seen n < 5 responses with status 429 followed by one 2xx response, has  *)
(* made n + 1 requests and exactly n waits, of 1.5 * i seconds for i =     *)
(* 1..n.  When it raises, either it has seen five 429s and made five       *)
(* requests, or the last response was not 2xx and not 429 (or the request  *)
(* itself failed) and it raised on that response with no further wait or   *)
(* request.                                                                *)
(***************************************************************************)
C27_KalshiRetry ==
    get.client = "kalshi" =>
        /\ get.requests <= 5
        /\ get.pc = "returned" =>
              LET n == Len(get.seen) - 1
              IN  /\ n < 5
                  /\ IsSuccess(get.seen[n + 1])
                  /\ Retried(get, n)
                  /\ Len(get.waits) = n
                  /\ get.requests = n + 1
        /\ get.pc = "raised" =>
              \/ /\ Len(get.seen) = 5
                 /\ Retried(get, 5)
                 /\ get.requests = 5
              \/ LET n == Len(get.seen) - 1
                 IN  /\ n < 5
                     /\ get.seen[n + 1] # 429
                     /\ ~IsSuccess(get.seen[n + 1])
                     /\ Retried(get, n)
                     /\ Len(get.waits) = n
                     /\ get.requests = n + 1

\* three 429s then a 200: the GET returned after waits of 1.5, 3.0 and 4.5 s
C27_Witness ==
    /\ get.client = "kalshi"
    /\ get.pc = "returned"
    /\ get.seen = <<429, 429, 429, 200>>
    /\ get.waits = <<15, 30, 45>>

(***************************************************************************)
(* C28.  A venue-P GET (Gamma /events, CLOB /book) that receives a 429 is  *)
(* retried like a venue-K GET: it ends on a 429 only after five of them,   *)
(* each followed by its wait of 1.5 * i seconds.                           *)
(***************************************************************************)
C28_PolymarketRetry ==
    (/\ get.client = "polymarket"
     /\ get.pc \in {"returned", "raised"}
     /\ get.seen[Len(get.seen)] = 429) =>
        /\ Len(get.seen) = 5
        /\ Retried(get, 5)

(***************************************************************************)
(* fetch_active_markets.  A market is its id; series is what the series    *)
(* sweep of venue K returned, in order; an event is the list of its nested *)
(* markets, a page a list of events.                                       *)
(***************************************************************************)
FetchIds == {"m1", "m2", "m3"}

\* the lists of at most n ids
IdLists(n) == UNION {[1..k -> FetchIds] : k \in 0..n}

\* the lists of at most n events of at most two markets each
EventLists(n) == UNION {[1..k -> IdLists(2)] : k \in 0..n}

\* the loop over an event's markets, of either client: a market is appended
\* (on venue K only if its id was not seen) and the loop breaks once
\* len(markets) >= max_markets
RECURSIVE EventMarkets(_, _, _, _)
EventMarkets(mkts, markets, max_markets, dedup) ==
    IF mkts = <<>> THEN markets
    ELSE LET added == IF dedup /\ Head(mkts) \in Range(markets) THEN markets
                      ELSE Append(markets, Head(mkts))
         IN  IF Len(added) >= max_markets THEN added
             ELSE EventMarkets(Tail(mkts), added, max_markets, dedup)

\* the loop over the events, of either client
RECURSIVE EventsLoop(_, _, _, _)
EventsLoop(events, markets, max_markets, dedup) ==
    IF events = <<>> THEN markets
    ELSE LET after == EventMarkets(Head(events), markets, max_markets, dedup)
         IN  IF Len(after) >= max_markets THEN after
             ELSE EventsLoop(Tail(events), after, max_markets, dedup)

\* the merge of all_series_markets: every id not seen before is appended
RECURSIVE SeriesLoop(_, _)
SeriesLoop(series, markets) ==
    IF series = <<>> THEN markets
    ELSE SeriesLoop(Tail(series),
                    IF Head(series) \in Range(markets) THEN markets
                    ELSE Append(markets, Head(series)))

\* KalshiClient.fetch_active_markets from the merge on
KalshiFetchActive(series, events, max_markets) ==
    EventsLoop(events, SeriesLoop(series, <<>>), max_markets, TRUE)

\* PolymarketClient.fetch_active_markets: one page of events after another
\* while len(markets) < max_markets, until an empty page
RECURSIVE PolymarketFetchActive(_, _, _)
PolymarketFetchActive(pages, markets, max_markets) ==
    IF Len(markets) >= max_markets \/ pages = <<>> THEN markets
    ELSE IF Head(pages) = <<>> THEN markets
    ELSE PolymarketFetchActive(Tail(pages),
                               EventsLoop(Head(pages), markets, max_markets, FALSE),
                               max_markets)

\* a call fetch_active_markets(max_markets) on either venue
FetchActive ==
    /\ ~lastFetch.done
    /\ \E max_markets \in 1..3 :
          \/ \E series \in IdLists(3), events \in EventLists(2) :
                lastFetch' = [done |-> TRUE, venue |-> "kalshi",
                              max_markets |-> max_markets,
                              series |-> series, events |-> events,
                              markets |-> KalshiFetchActive(series, events, max_markets)]
          \/ \E pages \in [1..2 -> EventLists(1)] :
                lastFetch' = [done |-> TRUE, venue |-> "polymarket",
                              max_markets |-> max_markets,
                              series |-> <<>>, events |-> pages,
                              markets |-> PolymarketFetchActive(pages, <<>>, max_markets)]

FetchNext ==
    FetchActive /\ UNCHANGED <<matcherVars, detectorVars, executorVars, loopVars, get,
                              lastParse>>

\* fetch_active_markets called once on any listing
SpecFetch == ScanInit /\ [][FetchNext]_vars

\* the positions of the result that hold a market of the series sweep
FromSeries(f) == {i \in DOMAIN f.markets : f.markets[i] \in Range(f.series)}

(***************************************************************************)
(* C29.  fetch_active_markets(max) returns at most max markets on both     *)
(* venues; on venue K no id occurs twice in the result and the markets of  *)
(* the series sweep come before those only the event sweep gave.           *)
(***************************************************************************)
C29_FetchCapped ==
    lastFetch.done =>
        /\ Len(lastFetch.markets) <= lastFetch.max_markets
        /\ lastFetch.venue = "kalshi" =>
              /\ \A i, j \in DOMAIN lastFetch.markets :
                    i # j => lastFetch.markets[i] # lastFetch.markets[j]
              /\ \A i \in FromSeries(lastFetch), j \in DOMAIN lastFetch.markets :
                    j \notin FromSeries(lastFetch) => i < j

(***************************************************************************)
(* Parsing a market's prices.  Prices are in thousandths: 1000 is 1.0, and *)
(* a price quoted in cents, such as 55, is 55000.                          *)
(***************************************************************************)
RawPrices == {0, 10, 450, 550, 1000, 2000, 45000, 55000, 100000}

\* KalshiClient._parse_market: the prices of the outcome it stores for the
\* payload's yes_price, no_price and last_price
KalshiParsePrices(raw_yes, raw_no, raw_last) ==
    LET derived  == raw_yes = 0 /\ raw_no = 0 /\ raw_last > 0
        from_last == IF raw_last > 1000 THEN raw_last \div 100 ELSE raw_last
        yes_price == IF derived THEN from_last ELSE raw_yes
        no_price  == IF derived THEN 1000 - from_last ELSE raw_no
    IN  [yes_price |-> IF yes_price > 1000 THEN yes_price \div 100 ELSE yes_price,
         no_price  |-> IF no_price > 1000 THEN no_price \div 100 ELSE no_price]

\* PolymarketClient._parse_outcomes: the prices of the outcome it stores for
\* an entry of outcomePrices
PolymarketParsePrices(price) ==
    [yes_price |-> price, no_price |-> IF price # 0 THEN 1000 - price ELSE 0]

\* one market payload is parsed, on either venue
Parse ==
    /\ ~lastParse.done
    /\ \/ \E y \in RawPrices, n \in RawPrices, l \in RawPrices :
             lastParse' = [done |-> TRUE, venue |-> "kalshi",
                           raw |-> [yes_price |-> y, no_price |-> n, last_price |-> l],
                           outcome |-> KalshiParsePrices(y, n, l)]
       \/ \E price \in RawPrices :
             lastParse' = [done |-> TRUE, venue |-> "polymarket",
                           raw |-> [yes_price |-> price, no_price |-> 0, last_price |-> 0],
                           outcome |-> PolymarketParsePrices(price)]

ParseNext ==
    Parse /\ UNCHANGED <<matcherVars, detectorVars, executorVars, loopVars, get,
                        lastFetch>>

\* one payload with any of these prices is parsed
SpecParse == ScanInit /\ [][ParseNext]_vars

(***************************************************************************)
(* C30.  On either venue the outcome stored for a parsed market has        *)
(* 0 <= yes_price <= 1 and 0 <= no_price <= 1, whether the raw prices came *)
(* as fractions or in cents: a raw yes_price above 1 is stored divided by  *)
(* 100.                                                                    *)
(***************************************************************************)
C30_PricesNormalized ==
    lastParse.done =>
        /\ 0 <= lastParse.outcome.yes_price /\ lastParse.outcome.yes_price <= 1000
        /\ 0 <= lastParse.outcome.no_price /\ lastParse.outcome.no_price <= 1000
        /\ lastParse.raw.yes_price > 1000 =>
              lastParse.outcome.yes_price * 100 = lastParse.raw.yes_price


(***************************************************************************)
(* C31.  Within one tick the steps occur in this order: both fetches       *)
(* complete and their lists are published, then match, then order book     *)
(* enrichment and re-linking, then detection, then the stats update, then  *)
(* publish, then execution.  execute is invoked only if auto-execution is  *)
(* enabled and the tick's opportunity list is non-empty, and then once, on *)
(* the first opportunity detected in that tick, which has the highest ROI. *)
(***************************************************************************)
\* where _scan_once may be suspended next after it was suspended at pc
Follows(pc) ==
    CASE pc = "fetch"     -> {"match", "backoff"}
      [] pc = "match"     -> {"enrich"}
      [] pc = "enrich"    -> {"broadcast", "execute", "wait"}
      [] pc = "broadcast" -> {"execute", "wait", "backoff"}
      [] pc = "execute"   -> {"wait"}

\* this step calls executor.execute
Invoked ==
    /\ executing = None
    /\ \/ executing' # None
       \/ Len(executor'.execution_log) > Len(executor.execution_log)

\* the opportunity the call of this step was given
InvokedOn ==
    IF executing' # None THEN executing'[1].opportunity
    ELSE executor'.execution_log[Len(executor'.execution_log)].opportunity

\* this step ends _broadcast, or goes through it with no subscriber
PublishEnds ==
    /\ task.pc \in {"enrich", "broadcast"}
    /\ task'.pc \in {"execute", "wait"}

C31_TickOrder ==
    /\ [][(task.pc \in TickPcs /\ task'.pc # task.pc) =>
            task'.id = task.id /\ task'.pc \in Follows(task.pc)]_vars
    /\ [][(kalshi_markets' # kalshi_markets \/ polymarket_markets' # polymarket_markets) =>
            task.pc = "fetch" /\ task'.pc = "match"]_vars
    /\ [][(matched_markets' # matched_markets \/ lastMatch' # lastMatch) =>
            /\ task.pc = "match" /\ task'.pc = "enrich"
            /\ lastMatch'.K = kalshi_markets /\ lastMatch'.P = polymarket_markets
            /\ matched_markets' = lastMatch'.matched]_vars
    /\ [][(lastEnrich' # lastEnrich \/ opportunities' # opportunities
             \/ stats'.total_scans # stats.total_scans \/ bcast'.tick # bcast.tick) =>
            /\ task.pc = "enrich" /\ task'.pc # "enrich"
            /\ lastEnrich'.tick = task.tick
            /\ DOMAIN lastEnrich'.views = DOMAIN matched_markets
            /\ \A i \in DOMAIN matched_markets : lastEnrich'.views[i].mm = matched_markets[i]
            /\ \E ties \in [DOMAIN matched_markets -> Ties] :
                  opportunities' =
                      DetectOpportunities(lastEnrich'.views, min_profit_cents,
                                          kalshi_fee_rate, polymarket_fee_rate, ties)
            /\ stats'.total_scans = stats.total_scans + 1
            /\ stats'.active_opportunities = Len(opportunities')
            /\ bcast'.tick = task.tick
            /\ bcast'.sent = <<>>
            /\ bcast'.data = Snapshot(opportunities', stats')]_vars
    /\ [][(bcast'.tick = bcast.tick /\ bcast'.sent # bcast.sent) =>
            /\ task.pc = "broadcast"
            /\ bcast.tick = task.tick
            /\ (executing = None /\ executing' = None) \/ PublishEnds
            /\ bcast'.sent[Len(bcast'.sent)].data = Snapshot(opportunities, stats)]_vars
    /\ [][Invoked =>
            /\ PublishEnds
            /\ bcast'.finished /\ bcast'.tick = task.tick
            /\ lastEnrich'.tick = task.tick
            /\ executor.enabled
            /\ opportunities' # <<>>
            /\ InvokedOn = opportunities'[1]
            /\ \A i \in DOMAIN opportunities' : opportunities'[i].roi <= InvokedOn.roi
            /\ Len(executor'.execution_log) <= Len(executor.execution_log) + 1]_vars
    /\ [][(PublishEnds /\ executor.enabled /\ opportunities' # <<>>) => Invoked]_vars

\* the tick found two opportunities, its subscriber was sent the snapshot,
\* and execute is now under way on the first of the two
C31_Witness ==
    /\ task.pc = "execute"
    /\ Len(opportunities) = 2
    /\ opportunities[1].roi > opportunities[2].roi
    /\ executing = Some([opportunity |-> opportunities[1],
                         position_size |-> PositionSize(executor, opportunities[1])])
    /\ bcast.tick = task.tick /\ bcast.finished
    /\ bcast.sent # <<>>


(***************************************************************************)
(* C32.  An order book read that fails during enrichment never fails the   *)
(* tick: _enrich_orderbooks returns, detection runs and the tick goes on   *)
(* to publish.  The outcome of a market whose read failed has ask and      *)
(* depth fields 0 when that tick's detector runs, so the detector prices   *)
(* that leg at its mid price with unknown depth.                           *)
(***************************************************************************)
\* the outcome o holds no order book value
NoBook(o) == o.yes_ask = 0 /\ o.no_ask = 0 /\ o.yes_depth = 0 /\ o.no_depth = 0

C32_Absorbed ==
    [][(task.pc = "enrich" /\ ~task.cancel /\ task'.pc # "enrich") =>
          /\ task'.pc \in {"broadcast", "execute", "wait"}
          /\ lastEnrich'.tick = task.tick
          /\ stats'.total_scans = stats.total_scans + 1
          /\ stats'.errors = stats.errors]_vars

C32_FailedReadsLeaveZero ==
    \A i \in DOMAIN lastEnrich.views :
        LET v == lastEnrich.views[i]
        IN  /\ v.mm.k \in lastEnrich.failed => NoBook(v.ko)
            /\ v.mm.p \in lastEnrich.failed => NoBook(v.po)

C32_EnrichErrors == C32_Absorbed /\ []C32_FailedReadsLeaveZero

\* the same for the reads of Market objects fetched in the tick itself
C32_FreshFailedReadsLeaveZero ==
    \A i \in DOMAIN lastEnrich.views :
        LET v == lastEnrich.views[i]
        IN  /\ (v.mm.k \in lastEnrich.failed /\ v.mm.k.gen = lastEnrich.tick) => NoBook(v.ko)
            /\ (v.mm.p \in lastEnrich.failed /\ v.mm.p.gen = lastEnrich.tick) => NoBook(v.po)


(***************************************************************************)
(* C33.  Cancellation propagates and is not treated as a tick error: once  *)
(* stop() has cancelled the task during a tick, nothing is appended to     *)
(* stats.errors, no backoff sleep is taken, and the next step of the task  *)
(* ends the loop.                                                          *)
(***************************************************************************)
C33_CancelPropagates ==
    /\ [][(task.cancel /\ task.pc \in TickPcs) =>
            /\ stats'.errors = stats.errors
            /\ task' # task => (task'.id = task.id /\ task'.pc = "done")]_vars
    /\ [][(stopper'.pc = "await_task" /\ stopper.pc # "await_task"
             /\ task.pc \in TickPcs) =>
            /\ task'.cancel /\ task'.pc = task.pc
            /\ stats'.errors = stats.errors]_vars
    /\ [](stopper.pc \in {"closing_polymarket", "closing_kalshi", "returned"}
            /\ stopper.task = task.id /\ stopper.began_in \in TickPcs
          => task.pc = "done")

\* stop() cancelled the task while its tick awaited the matcher, and has
\* returned: the loop is over and stats.errors is empty
C33_Witness ==
    /\ stopper.pc = "returned"
    /\ stopper.task = task.id
    /\ stopper.began_in = "match"
    /\ task.pc = "done"
    /\ stats.errors = <<>>


(***************************************************************************)
(* C34.  When stop() cancels the task while the matcher runs in its        *)
(* worker, the running match() completes first and only then does the loop *)
(* exit: the task is not done, and stop() has not returned, while a worker *)
(* of that task is still inside match(), so no two workers are ever inside *)
(* match() at once.                                                        *)
(***************************************************************************)
C34_StopWaitsForMatch ==
    /\ task.pc = "done" => \A w \in workers : w.task # task.id
    /\ stopper.pc = "returned" => \A w \in workers : w.task # stopper.task
    /\ Cardinality(workers) <= 1

\* a worker that was running when its task was cancelled still runs match()
\* to its end and stores into the cache
C34_WorkerNotInterrupted ==
    [][\A w \in workers :
          w \notin workers' => (lastMatch'.K = w.K /\ lastMatch'.P = w.P)]_vars


(***************************************************************************)
(* C35.  A slow subscriber does not stall the tick: even if the send to    *)
(* one subscriber never completes, every other subscriber registered at    *)
(* publish time is eventually sent the snapshot, the tick eventually       *)
(* leaves _broadcast for its execution step, and the next tick eventually  *)
(* starts.                                                                 *)
(***************************************************************************)
\* the subscribers the latest broadcast has sent its snapshot to
SentTo == {bcast.sent[i].cb : i \in DOMAIN bcast.sent}

C35_OthersReceive ==
    \A n \in 1..MaxGen :
        (task.pc = "broadcast" /\ task.tick = n)
            ~> (bcast.tick > n \/ Range(bcast.at_publish) \ {SlowSubscriber} \subseteq SentTo)

C35_TickGoesOn ==
    \A n \in 1..MaxGen :
        (task.pc = "broadcast" /\ task.tick = n)
            ~> (task.tick > n \/ task.pc \in {"execute", "wait", "backoff"})

C35_NextTickStarts ==
    \A n \in 1..(MaxGen - 1) :
        (task.pc = "broadcast" /\ task.tick = n) ~> (task.tick > n)

C35_SlowSubscriber == C35_OthersReceive /\ C35_TickGoesOn /\ C35_NextTickStarts

\* the next tick starts when the slow subscriber does not register
C35_WithoutSlowSubscriber ==
    \A n \in 1..(MaxGen - 1) :
        (task.pc = "broadcast" /\ task.tick = n /\ SlowSubscriber \notin callbacks)
            ~> (task.tick > n \/ SlowSubscriber \in callbacks)


(***************************************************************************)
(* The HTTP calls in flight.  The series sweep of                          *)
(* KalshiClient.fetch_active_markets and _enrich_orderbooks both gather    *)
(* their coroutines in batches of batch_size; a coroutine of a batch has   *)
(* one GET in flight at a time (its pages, retries and outcomes follow one *)
(* another), from the moment gather starts it until it returns.            *)
(***************************************************************************)
\* batch_size of fetch_active_markets and of _enrich_orderbooks
BatchSize == 8

\* len(SERIES_TICKERS)
SeriesCount == 60

\* the number of matched pairs explored
MaxPairs == 5

\* the values settings.kalshi_max_rps and settings.polymarket_max_rps may be
\* configured with
RpsCaps == {2, 8, DefaultMaxRps}

\* tasks of _enrich_orderbooks for n matched pairs: one Kalshi coroutine per
\* pair and, if the pair's Polymarket outcome has a token_id, one Polymarket
\* coroutine
RECURSIVE EnrichTasks(_, _)
EnrichTasks(n, token) ==
    IF n = 0 THEN <<>>
    ELSE <<"kalshi">> \o (IF token THEN <<"polymarket">> ELSE <<>>)
            \o EnrichTasks(n - 1, token)

\* the coroutines of fetch_active_markets' series sweep
SeriesTasks == [i \in 1..SeriesCount |-> "kalshi"]

\* tasks[i : i + batch_size], as indices
Batch(tasks, i) == (i + 1)..Min(i + BatchSize, Len(tasks))

\* gather starts every coroutine of the batch at from: each runs to its GET
Gather(r, from) ==
    IF from >= Len(r.tasks) THEN [r EXCEPT !.pc = "done", !.from = from, !.pending = {}]
    ELSE [r EXCEPT !.pc = "gather", !.from = from, !.pending = Batch(r.tasks, from)]

\* the number of GETs to venue in flight
InFlight(r, venue) == Cardinality({i \in r.pending : r.tasks[i] = venue})

\* a sweep begins under some configured caps and gathers its first batch
SweepStart ==
    /\ rate.pc \in {"idle", "done"}
    /\ \E kcap \in RpsCaps, pcap \in RpsCaps :
       \E sw \in {[sweep |-> "series", tasks |-> SeriesTasks]}
                 \cup {[sweep |-> "enrich", tasks |-> EnrichTasks(n, token)] :
                          n \in 0..MaxPairs, token \in BOOLEAN} :
          rate' = Gather([NoRate EXCEPT !.sweep = sw.sweep, !.tasks = sw.tasks,
                                        !.kalshi_max_rps = kcap,
                                        !.polymarket_max_rps = pcap], 0)

\* a coroutine of the batch returns (or raises); after the last one gather
\* returns, and the loop sleeps if another batch follows
CallReturns ==
    /\ rate.pc = "gather"
    /\ \E i \in rate.pending :
          rate' = IF rate.pending # {i} THEN [rate EXCEPT !.pending = @ \ {i}]
                  ELSE IF rate.from + BatchSize < Len(rate.tasks)
                  THEN [rate EXCEPT !.pending = {}, !.pc = "sleep"]
                  ELSE [rate EXCEPT !.pending = {}, !.pc = "done", !.from = Len(rate.tasks)]

\* the sleep between two batches ends and the next batch is gathered
BatchSleepDone ==
    /\ rate.pc = "sleep"
    /\ rate' = Gather(rate, rate.from + BatchSize)

RateNext ==
    (SweepStart \/ CallReturns \/ BatchSleepDone)
        /\ UNCHANGED <<matcherVars, detectorVars, executorVars, clientVars, enrichVars,
                       scan_interval_seconds, match_similarity_threshold, auto_execute,
                       max_position_size_usd, task, stop_event, http, ws_broadcast,
                       stats, kalshi_markets, polymarket_markets, matched_markets,
                       opportunities, workers, stopper, callbacks, bcast>>

\* the series sweep or the enrichment of any number of pairs, under any caps
SpecRate == ScanInit /\ [][RateNext]_vars

(***************************************************************************)
(* C36.  At every moment of a sweep the number of HTTP calls in flight to  *)
(* each venue does not exceed that venue's configured cap (kalshi_max_rps, *)
(* polymarket_max_rps), for any configured cap and any number of matched   *)
(* pairs.                                                                  *)
(***************************************************************************)
C36_InFlightCapped ==
    /\ InFlight(rate, "kalshi") <= rate.kalshi_max_rps
    /\ InFlight(rate, "polymarket") <= rate.polymarket_max_rps

\* the calls in flight stay within the caps as src/config.py sets them
C36_WithinDefaultCaps ==
    /\ InFlight(rate, "kalshi") <= DefaultMaxRps
    /\ InFlight(rate, "polymarket") <= DefaultMaxRps


(***************************************************************************)
(* C37.  An update_settings(match_threshold = t) that interleaves with a   *)
(* match() running in the worker thread leaves no pair scored under the    *)
(* old threshold behind: once the tick has ended the cache holds no entry  *)
(* (none is an override here) with a similarity below t, and every pair a  *)
(* tick that began under t hands on has a similarity of at least t.        *)
(***************************************************************************)
C37_CacheAboveThreshold ==
    (task.pc = "wait" /\ workers = {}) =>
        \A k \in DOMAIN cache : cache[k].score >= threshold

C37_LaterTicksAboveThreshold ==
    [][(task.pc = "match" /\ task'.pc = "enrich"
          /\ \E w \in workers : w.tick = task.tick /\ w.threshold = threshold') =>
            \A i \in DOMAIN matched_markets' : matched_markets'[i].score >= threshold']_vars

C37_NoStalePairs == []C37_CacheAboveThreshold /\ C37_LaterTicksAboveThreshold


(***************************************************************************)
(* C38.  Every tick is recorded as exactly one of success or failure: a    *)
(* tick that incremented stats.total_scans never also appends to           *)
(* stats.errors or backs off, even when a subscriber throws during publish *)
(* and is unregistered while the broadcast is in progress; a tick that     *)
(* appends to stats.errors has not incremented total_scans and has         *)
(* published no snapshot.                                                  *)
(***************************************************************************)
\* the tick in progress has incremented total_scans (and set last_scan)
Counted == stats.last_scan = task.tick

C38_SuccessOrFailure ==
    /\ [][stats'.errors # stats.errors =>
            /\ ~Counted
            /\ stats'.total_scans = stats.total_scans
            /\ bcast.tick # task.tick]_vars
    /\ [](task.pc = "backoff" => ~Counted)

\* the same for a tick during which no subscriber was unregistered
C38_WithoutUnregister ==
    /\ [][(stats'.errors # stats.errors /\ bcast.tick = task.tick) =>
            bcast.unregistered # {}]_vars
    /\ [](task.pc = "backoff" /\ Counted => bcast.unregistered # {})


(***************************************************************************)
(* The executor driven directly over several days: execute is called on    *)
(* any detected opportunity, its legs return or raise, seconds and         *)
(* midnights pass, and auto-execution may be switched on.                  *)
(***************************************************************************)
PnlNext ==
    \/ Detect /\ UNCHANGED <<matcherVars, executorVars, scannerVars>>
    \/ (\E j \in DOMAIN Detected : Execute(j))
          /\ UNCHANGED <<matcherVars, detectorVars, scannerVars>>
    \/ ExecuteLegsReturn /\ UNCHANGED <<matcherVars, detectorVars, scannerVars>>
    \/ TimePasses /\ UNCHANGED <<matcherVars, detectorVars, scannerVars>>
    \/ NewDay /\ UNCHANGED <<matcherVars, detectorVars, scannerVars>>
    \/ ScanUpdateSettings

SpecPnl == ExecInit /\ [][PnlNext]_vars

(***************************************************************************)
(* C39.  daily_pnl is changed only by a successful execution, which adds   *)
(* profit * position_size, or by the reset to 0 on a new UTC date; blocked *)
(* and failed attempts do not otherwise change it.  Under                  *)
(* min_profit_cents >= 0 an executed opportunity has profit >= 0, and as   *)
(* long as every executed opportunity has, daily_pnl is >= 0 and the       *)
(* daily-loss guardrail rejects no execution.                              *)
(***************************************************************************)
\* this step resets daily_pnl on a new date
DailyReset ==
    /\ executor.daily_reset_date # today
    /\ executor'.daily_reset_date = today
    /\ executor'.daily_pnl = 0

\* every opportunity executed or being executed has a profit of at least 0
ExecutedAtAProfit ==
    /\ \A i \in DOMAIN executor.execution_log :
          executor.execution_log[i].success =>
              executor.execution_log[i].opportunity.profit >= 0
    /\ executing # None => executing[1].opportunity.profit >= 0

C39_DailyPnl ==
    /\ [][executor'.daily_pnl # executor.daily_pnl =>
            \/ /\ executing # None /\ executing' = None
               /\ Recorded /\ NewRecord.success
               /\ executing[1].position_size > 0
               /\ executor'.daily_pnl = executor.daily_pnl
                     + executing[1].opportunity.profit * executing[1].position_size
            \/ DailyReset]_vars
    /\ [][(Recorded /\ ~NewRecord.success) =>
            /\ NewRecord.pnl = 0
            /\ executor'.daily_pnl = executor.daily_pnl \/ DailyReset]_vars
    /\ [][(executing = None /\ executing' # None /\ executor.min_profit_cents >= 0) =>
            executing'[1].opportunity.profit >= 0]_vars
    /\ [](ExecutedAtAProfit =>
            /\ executor.daily_pnl >= 0
            /\ \A i \in DOMAIN executor.execution_log :
                  executor.execution_log[i].error # "Daily loss limit reached")

\* an execution at a profit was booked on the first day, and an attempt on
\* the second day, blocked by the cooldown, put daily_pnl back to 0
C39_Witness ==
    /\ Len(executor.execution_log) = 2
    /\ executor.execution_log[1].success
    /\ executor.execution_log[1].pnl > 0
    /\ executor.execution_log[2].error = "Cooldown active"
    /\ executor.min_profit_cents >= 0
    /\ executor.daily_reset_date = 2
    /\ executor.daily_pnl = 0

=============================================================================
